---- MODULE Spec2Model ----
(***************************************************************************)
(* Model of the GoodBlue strategy app: the content generator               *)
(* (generate.py, swot_prompts.py), the SWOT wizard (swot.py) and the deck   *)
(* builder (export_ppt.py).                                                 *)
(*                                                                         *)
(* Python values are tagged records: [null |-> TRUE], [num |-> n],          *)
(* [str |-> s], [list |-> seq], [dict |-> f].  A Python string is a        *)
(* sequence of tokens (words and white-space characters), so that strip(),  *)
(* replace() and splitlines() are computed and not assumed.  Dictionary     *)
(* keys are TLA+ strings.                                                   *)
(***************************************************************************)
EXTENDS Integers, Sequences, FiniteSets, TLC

VARIABLES
    provider,   \* StrategyGenerator.provider: "none" or "set"
    call,       \* the last generator call: function, arguments, provider response, result
    env,        \* swot.py: what the process finds (modules, API key, SDK)
    step,       \* st.session_state.step
    wstate,     \* st.session_state.state
    uuids,      \* the number of analysis identifiers generated so far
    shown,      \* the messages the last wizard handler displayed
    wcall,      \* the provider interaction of the last Generate request
    dcall       \* the last deck-builder call: function, arguments, result

genVars == <<provider, call>>
wizVars == <<env, step, wstate, uuids, shown, wcall>>
deckVars == <<dcall>>

----------------------------------------------------------------------------
(* Python values *)

JNull == [null |-> TRUE]
JN(n) == [num |-> n]
JS(s) == [str |-> s]
JL(q) == [list |-> q]
JD(f) == [dict |-> f]
\* a one-word string
Wd(w) == JS(<<w>>)
EmptyDict == JD(<<>>)

IsNull(v) == DOMAIN v = {"null"}
IsNum(v)  == DOMAIN v = {"num"}
IsStr(v)  == DOMAIN v = {"str"}
IsList(v) == DOMAIN v = {"list"}
IsDict(v) == DOMAIN v = {"dict"}

\* bool(v)
Truthy(v) ==
    CASE IsNull(v) -> FALSE
      [] IsNum(v)  -> v.num # 0
      [] IsStr(v)  -> Len(v.str) > 0
      [] IsList(v) -> Len(v.list) > 0
      [] IsDict(v) -> DOMAIN v.dict # {}

\* d.get(k, default) on a dict
Get(d, k, default) == IF k \in DOMAIN d.dict THEN d.dict[k] ELSE default

\* d[k] = v on a dict
Put(d, k, v) == JD((k :> v) @@ d.dict)

WhiteSpace == {" ", "\t", "\n"}

RECURSIVE LStrip(_)
LStrip(s) == IF s # <<>> /\ Head(s) \in WhiteSpace THEN LStrip(Tail(s)) ELSE s

RECURSIVE RStrip(_)
RStrip(s) ==
    IF s # <<>> /\ s[Len(s)] \in WhiteSpace THEN RStrip(SubSeq(s, 1, Len(s) - 1)) ELSE s

\* str.strip()
Strip(s) == RStrip(LStrip(s))

\* str(v): the text of a value; a list or a dict prints as one non-blank word
PyStr(v) ==
    CASE IsNull(v) -> <<"None">>
      [] IsNum(v)  -> <<ToString(v.num)>>
      [] IsStr(v)  -> v.str
      [] IsList(v) -> <<"[...]">>
      [] IsDict(v) -> <<"{...}">>

\* the outcome of a call: a returned value or a raised exception
Ok(v) == [ok |-> v]
Raise(e) == [exc |-> e]
IsOk(o) == DOMAIN o = {"ok"}
IsExc(o) == DOMAIN o = {"exc"}

RECURSIVE KeepIdx(_, _, _)
\* the elements of q at the indices in S, from index i on, in order
KeepIdx(q, S, i) ==
    IF i > Len(q) THEN <<>>
    ELSE (IF i \in S THEN <<q[i]>> ELSE <<>>) \o KeepIdx(q, S, i + 1)

\* the elements of q that satisfy Test, in order
SeqFilter(q, Test(_)) == KeepIdx(q, {i \in 1..Len(q) : Test(q[i])}, 1)

SeqMap(q, F(_)) == [i \in 1..Len(q) |-> F(q[i])]

\* q[:n]
Take(q, n) == IF Len(q) > n THEN SubSeq(q, 1, n) ELSE q

Min(a, b) == IF a < b THEN a ELSE b
Max(a, b) == IF a > b THEN a ELSE b

----------------------------------------------------------------------------
(* generate.py: utilities *)

\* _coerce_list: the value as a list of stripped non-blank strings
_coerce_list(x) ==
    LET keep(i) == Strip(PyStr(i)) # <<>>
        clean(i) == JS(Strip(PyStr(i)))
    IN  IF IsNull(x) THEN <<>>
        ELSE IF IsList(x) THEN SeqMap(SeqFilter(x.list, keep), clean)
        ELSE IF Strip(PyStr(x)) # <<>> THEN <<JS(Strip(PyStr(x)))>>
        ELSE <<>>

TopNDefault == 6

\* _topn(items, n)
_topn(items, n) == IF Len(items) > n THEN SubSeq(items, 1, n) ELSE items

(* The provider's text is a sequence of segments: [prose |-> w] is text      *)
(* without braces that is no JSON, [json |-> v] is the JSON text of v.      *)
IsJsonSeg(g) == DOMAIN g = {"json"}

\* the text contains a brace: a dict, or a list that holds a dict
HasBrace(v) ==
    \/ IsDict(v)
    \/ IsList(v) /\ \E i \in 1..Len(v.list) : IsDict(v.list[i])

BraceSegs(text) == {i \in 1..Len(text) : IsJsonSeg(text[i]) /\ HasBrace(text[i].json)}

\* json.loads(text): one JSON value and nothing else
DirectParse(text) ==
    IF Len(text) = 1 /\ IsJsonSeg(text[1]) THEN Ok(text[1].json) ELSE Raise("JSONDecodeError")

(* _JSON_BLOCK_RE = \{[\s\S]*\} is greedy: the block runs from the first     *)
(* opening brace to the last closing brace of the text.  It is JSON only     *)
(* when that span is a single dict.                                         *)
BlockParse(text) ==
    LET segs == BraceSegs(text) IN
    IF segs = {} THEN Raise("NoMatch")
    ELSE IF Cardinality(segs) > 1 THEN Raise("JSONDecodeError")
    ELSE LET v == text[CHOOSE i \in segs : TRUE].json IN
         IF IsDict(v) THEN Ok(v)
         ELSE LET ds == {i \in 1..Len(v.list) : IsDict(v.list[i])} IN
              IF Cardinality(ds) = 1 THEN Ok(v.list[CHOOSE i \in ds : TRUE])
              ELSE Raise("JSONDecodeError")

\* _extract_json
_extract_json(text) ==
    IF text = <<>> THEN EmptyDict
    ELSE IF IsOk(DirectParse(text)) THEN DirectParse(text).ok
    ELSE IF IsOk(BlockParse(text)) THEN BlockParse(text).ok
    ELSE EmptyDict

----------------------------------------------------------------------------
(* generate.py: fallback values *)

StrList(ws) == JL([i \in 1..Len(ws) |-> Wd(ws[i])])

_DEF_BENCH_CAPS ==
    << "Brand strength", "Distribution/Channels", "Pricing/Packaging",
       "Integrations/Partner ecosystem", "Security/Compliance", "Analytics/AI",
       "Implementation complexity", "Support/Success" >>

_fallback_scope == JS(<<>>)

_fallback_ind ==
    JD([industries |-> JL(<<
        JD([industry_vertical_name |-> Wd("Financial Services"),
            TAM |-> JN(20),
            Critical_success_category |-> JD([
                Brand |-> StrList(<<"Trust with regulated clients",
                                    "Strong financial client references",
                                    "Reputation for compliance readiness">>),
                Economies_of_Scale |-> StrList(<<"Shared R&D costs across global clients",
                                                 "Specialized financial services teams",
                                                 "Extensive partner ecosystem">>),
                Capital |-> StrList(<<"Upfront compliance investment",
                                      "Infrastructure resilience",
                                      "Integration with legacy banking systems">>)])]),
        JD([industry_vertical_name |-> Wd("Manufacturing"),
            TAM |-> JN(10),
            Critical_success_category |-> JD([
                Brand |-> StrList(<<"Trusted vendor for factory automation",
                                    "Proven reliability in industrial workflows",
                                    "Reputation for minimizing downtime">>),
                Economies_of_Scale |-> StrList(<<"Global standardization lowers automation cost",
                                                 "Shared R&D across manufacturing clients",
                                                 "Bulk deployments reduce per-unit pricing">>),
                Capital |-> StrList(<<"Integration with robotics demands investment",
                                      "IoT infrastructure requires upfront funding",
                                      "Legacy system upgrades need capital">>)])])
      >>)])

_fallback_swot ==
    JD([S |-> StrList(<<"Clear value proposition", "Growing customer base",
                        "Experienced leadership", "Strong partner interest">>),
        W |-> StrList(<<"Limited brand awareness", "Thin mid-market coverage",
                        "Inconsistent messaging">>),
        O |-> StrList(<<"Upsell existing accounts", "New geography pilots",
                        "Alliances with integrators">>),
        T |-> StrList(<<"Price pressure from low-cost rivals", "Long sales cycles",
                        "Security/compliance scrutiny">>)])

_fallback_ansoff ==
    JD([market_penetration |-> StrList(<<"Bundle add-ons for existing customers",
                                         "Loyalty pricing to reduce churn">>),
        market_development |-> StrList(<<"Enter 1-2 adjacent regions",
                                         "Activate reseller partners">>),
        product_development |-> StrList(<<"Launch analytics-lite", "Managed service option">>),
        diversification |-> StrList(<<"Test vertical solution pack",
                                      "Hardware+SaaS starter kit">>)])

Scale == <<"Low", "Medium", "High">>

RECURSIVE PutAll(_, _, _)
\* row[ks[i]] = vs[i] for every i, in order
PutAll(row, ks, vs) ==
    IF ks = <<>> THEN row ELSE PutAll(Put(row, Head(ks), Head(vs)), Tail(ks), Tail(vs))

\* _fallback_benchmark(company, peers, caps); enumerate() counts from 0
_fallback_benchmark(company, peers, caps) ==
    LET row(i) ==
            LET rating(p) == Wd(Scale[((i + Len(p)) % 3) + 1])
                base == JD([capability |-> Wd(caps[i + 1])]
                           @@ (company :> Wd(Scale[Min(2, (i + 1) % 3) + 1])))
            IN  PutAll(base, peers, [j \in 1..Len(peers) |-> rating(peers[j])])
    IN  JD([peers |-> StrList(peers),
            table |-> JL([k \in 1..Len(caps) |-> row(k - 1)])])

----------------------------------------------------------------------------
(* generate.py: StrategyGenerator *)

(* What the provider does on one complete() call: it raises,                *)
(* [raise |-> e], or it returns a text, [text |-> segments].                *)
Complete(r) == IF "raise" \in DOMAIN r THEN Raise(r.raise) ELSE Ok(r.text)

\* the result of a generator call: its outcome and the number of complete() calls made
Res(o, n) == [out |-> o, completes |-> n]

\* any([...]) over lists
AnyNonEmpty(lists) == \E i \in 1..Len(lists) : lists[i] # <<>>

generate_Industry_Analysis(p, r) ==
    IF p = "set"
    THEN IF IsExc(Complete(r)) THEN Res(Complete(r), 1)
         ELSE Res(Ok(_extract_json(Complete(r).ok)), 1)
    ELSE Res(Ok(_fallback_ind), 0)

\* generate_swot with empty lists in the place of the fallback
Mutant_generate_swot(p, r) ==
    Res(Ok(JD([S |-> JL(<<>>), W |-> JL(<<>>), O |-> JL(<<>>), T |-> JL(<<>>)])), 0)

generate_swot(p, r) ==
    IF p = "set"
    THEN IF IsExc(Complete(r)) THEN Res(Complete(r), 1)
         ELSE LET out == _extract_json(Complete(r).ok) IN
              IF ~IsDict(out) THEN Res(Raise("AttributeError"), 1)
              ELSE LET S == _coerce_list(Get(out, "S", JNull))
                       W == _coerce_list(Get(out, "W", JNull))
                       O == _coerce_list(Get(out, "O", JNull))
                       T == _coerce_list(Get(out, "T", JNull))
                   IN  IF AnyNonEmpty(<<S, W, O, T>>)
                       THEN Res(Ok(JD([S |-> JL(_topn(S, TopNDefault)),
                                       W |-> JL(_topn(W, TopNDefault)),
                                       O |-> JL(_topn(O, TopNDefault)),
                                       T |-> JL(_topn(T, TopNDefault))])), 1)
                       ELSE Res(Ok(_fallback_swot), 1)
    ELSE Res(Ok(_fallback_swot), 0)

generate_ansoff(p, r) ==
    IF p = "set"
    THEN IF IsExc(Complete(r)) THEN Res(Complete(r), 1)
         ELSE LET out == _extract_json(Complete(r).ok) IN
              IF ~IsDict(out) THEN Res(Raise("AttributeError"), 1)
              ELSE LET mp == _coerce_list(Get(out, "market_penetration", JNull))
                       md == _coerce_list(Get(out, "market_development", JNull))
                       pd == _coerce_list(Get(out, "product_development", JNull))
                       dv == _coerce_list(Get(out, "diversification", JNull))
                   IN  IF AnyNonEmpty(<<mp, md, pd, dv>>)
                       THEN Res(Ok(JD([market_penetration |-> JL(_topn(mp, TopNDefault)),
                                       market_development |-> JL(_topn(md, TopNDefault)),
                                       product_development |-> JL(_topn(pd, TopNDefault)),
                                       diversification |-> JL(_topn(dv, TopNDefault))])), 1)
                       ELSE Res(Ok(_fallback_ansoff), 1)
    ELSE Res(Ok(_fallback_ansoff), 0)

DefaultPeers == <<"PeerA", "PeerB">>

\* str(row.get(k, "")).strip() or "Medium"
RatingOf(row, k) ==
    LET t == Strip(PyStr(Get(row, k, JS(<<>>)))) IN IF t # <<>> THEN JS(t) ELSE Wd("Medium")

\* the cleaning loop of generate_benchmark: the dict rows with a non-blank capability
CleanRows(table, company, peers) ==
    LET cap(row) == Strip(PyStr(Get(row, "capability", JS(<<>>))))
        keep(row) == IsDict(row) /\ cap(row) # <<>>
        clean(row) ==
            PutAll(Put(JD([capability |-> JS(cap(row))]), company, RatingOf(row, company)),
                   peers, [j \in 1..Len(peers) |-> RatingOf(row, peers[j])])
    IN  SeqMap(SeqFilter(table, keep), clean)

\* peersArg, capsArg: the empty list stands for None and for [] (both falsy)
generate_benchmark(p, r, company, peersArg, capsArg) ==
    LET peers == IF peersArg = <<>> THEN DefaultPeers ELSE peersArg
        caps == IF capsArg = <<>> THEN _DEF_BENCH_CAPS ELSE capsArg
    IN  IF p = "set"
        THEN IF IsExc(Complete(r)) THEN Res(Complete(r), 1)
             ELSE LET out == _extract_json(Complete(r).ok) IN
                  IF ~IsDict(out) THEN Res(Raise("AttributeError"), 1)
                  ELSE LET table == Get(out, "table", JNull) IN
                       IF IsList(table) /\ table.list # <<>>
                       THEN Res(Ok(JD([peers |-> StrList(peers),
                                       table |-> JL(Take(CleanRows(table.list, company, peers),
                                                         Len(caps)))])), 1)
                       ELSE Res(Ok(_fallback_benchmark(company, peers, caps)), 1)
        ELSE Res(Ok(_fallback_benchmark(company, peers, caps)), 0)

TopKDefault == 5

\* the numerals int() reads
NumeralRange == -9..99

\* int(v)
PyInt(v) ==
    CASE IsNum(v) -> Ok(v.num)
      [] IsStr(v) ->
            LET t == Strip(v.str) IN
            IF Len(t) = 1 /\ \E n \in NumeralRange : ToString(n) = t[1]
            THEN Ok(CHOOSE n \in NumeralRange : ToString(n) = t[1])
            ELSE Raise("ValueError")
      [] OTHER -> Raise("TypeError")

(* The scoring keywords that occur in the lower-cased word w ("k in t"),    *)
(* tabulated for the words of the model.                                    *)
KeywordsOf(w) ==
    CASE w = "Bundle add-ons for existing customers" -> {"bundle"}
      [] w = "Managed service option" -> {"managed"}
      [] w = "OEM bundle program" -> {"bundle", "oem"}
      [] w = "Managed calibration add-on" -> {"managed"}
      [] w = "Security proof pack" -> {"security"}
      [] w = "Open new region office" -> {"new region"}
      [] w = "AI platform" -> {"platform", "ai"}
      [] w = "Plain" -> {"ai"}
      [] OTHER -> {}

Keywords(title) == UNION {KeywordsOf(title[i]) : i \in 1..Len(title)}

\* _score that rates a managed offer or a new region as an effort of 4
Mutant_score(title) ==
    [impact |-> IF Keywords(title) \cap {"bundle", "platform", "ai", "oem", "security"} # {}
                THEN 5 ELSE 4,
     effort |-> IF Keywords(title) \cap {"managed", "new region"} # {} THEN 4 ELSE 2]

\* generate_recommendations._score, on the text of a title
_score(title) ==
    [impact |-> IF Keywords(title) \cap {"bundle", "platform", "ai", "oem", "security"} # {}
                THEN 5 ELSE 4,
     effort |-> IF Keywords(title) \cap {"managed", "new region"} # {} THEN 3 ELSE 2]

DefaultSeeds ==
    StrList(<<"OEM bundle program", "Managed calibration add-on", "Security proof pack",
              "SKU simplification", "Launch design partner pilot">>).list

\* the provider path without the clamping of impact and effort
Mutant_CleanRecs(out, top_k) ==
    LET title(item) == Strip(PyStr(Get(item, "title", JS(<<>>))))
        keep(item) == IsDict(item) /\ title(item) # <<>>
        kept == SeqFilter(Take(out, top_k), keep)
        impact(item) == PyInt(Get(item, "impact", JN(3)))
        effort(item) == PyInt(Get(item, "effort", JN(2)))
        clean(item) ==
            JD([title |-> JS(title(item)), impact |-> JN(impact(item).ok),
                effort |-> JN(effort(item).ok),
                rationale |-> JS(Strip(PyStr(Get(item, "rationale", JS(<<>>)))))])
    IN  IF \E i \in 1..Len(kept) : IsExc(impact(kept[i])) \/ IsExc(effort(kept[i]))
        THEN Raise("ValueError")
        ELSE Ok(SeqMap(kept, clean))

\* the provider path of generate_recommendations once the text is parsed:
\* the cleaned list, or the exception int() raised inside the try block
CleanRecs(out, top_k) ==
    LET title(item) == Strip(PyStr(Get(item, "title", JS(<<>>))))
        keep(item) == IsDict(item) /\ title(item) # <<>>
        kept == SeqFilter(Take(out, top_k), keep)
        impact(item) == PyInt(Get(item, "impact", JN(3)))
        effort(item) == PyInt(Get(item, "effort", JN(2)))
        clean(item) ==
            JD([title |-> JS(title(item)),
                impact |-> JN(Max(1, Min(5, impact(item).ok))),
                effort |-> JN(Max(1, Min(5, effort(item).ok))),
                rationale |-> JS(Strip(PyStr(Get(item, "rationale", JS(<<>>)))))])
    IN  IF \E i \in 1..Len(kept) : IsExc(impact(kept[i])) \/ IsExc(effort(kept[i]))
        THEN Raise("ValueError")
        ELSE Ok(SeqMap(kept, clean))

(* The heuristic path of generate_recommendations.  A section that is no    *)
(* dict has no get (AttributeError); a seed list that is None cannot be     *)
(* added (TypeError); a seed that is no string has no lower                 *)
(* (AttributeError).                                                        *)
HeuristicRecs(res, top_k) ==
    LET swot == Get(res, "SWOT", EmptyDict)
        ansoff == Get(res, "Ansoff", EmptyDict)
    IN  IF ~IsDict(swot) \/ ~IsDict(ansoff) THEN Raise("AttributeError")
        ELSE LET mp == Get(ansoff, "market_penetration", JL(<<>>))
                 pd == Get(ansoff, "product_development", JL(<<>>))
                 O == Get(swot, "O", JL(<<>>))
             IN  IF ~IsList(mp) \/ ~IsList(pd) \/ ~IsList(O) THEN Raise("TypeError")
                 ELSE LET all == SeqFilter(mp.list \o pd.list \o O.list, Truthy)
                          seeds == Take(IF all = <<>> THEN DefaultSeeds ELSE all, top_k)
                          rec(x) == JD([title |-> x,
                                        impact |-> JN(_score(x.str).impact),
                                        effort |-> JN(_score(x.str).effort),
                                        rationale |-> Wd("Derived from analysis.")])
                      IN  IF \E i \in 1..Len(seeds) : ~IsStr(seeds[i])
                          THEN Raise("AttributeError")
                          ELSE Ok(JL(SeqMap(seeds, rec)))

\* generate_recommendations that asks the provider a second time when the
\* first answer gave no record
Mutant_generate_recommendations(p, r, res, top_k) ==
    IF p = "set"
    THEN LET out == IF IsOk(Complete(r)) THEN _extract_json(Complete(r).ok) ELSE JNull
             cleaned == IF IsList(out) /\ out.list # <<>>
                        THEN CleanRecs(out.list, top_k) ELSE Ok(<<>>)
         IN  IF IsOk(cleaned) /\ cleaned.ok # <<>>
             THEN Res(Ok(JL(cleaned.ok)), 1)
             ELSE Res(HeuristicRecs(res, top_k), 2)
    ELSE Res(HeuristicRecs(res, top_k), 0)

generate_recommendations(p, r, res, top_k) ==
    IF p = "set"
    THEN LET out == IF IsOk(Complete(r)) THEN _extract_json(Complete(r).ok) ELSE JNull
             cleaned == IF IsList(out) /\ out.list # <<>>
                        THEN CleanRecs(out.list, top_k) ELSE Ok(<<>>)
         IN  IF IsOk(cleaned) /\ cleaned.ok # <<>>
             THEN Res(Ok(JL(cleaned.ok)), 1)
             ELSE Res(HeuristicRecs(res, top_k), 1)
    ELSE Res(HeuristicRecs(res, top_k), 0)

\* generate_scope: without a provider the local `out` is never bound
generate_scope(p, r) ==
    IF p = "set"
    THEN IF IsExc(Complete(r)) THEN Res(Complete(r), 1)
         ELSE LET out == _extract_json(Complete(r).ok) IN
              IF ~IsDict(out) THEN Res(Raise("AttributeError"), 1)
              ELSE Res(Ok(Get(out, "scope", JS(<<>>))), 1)
    ELSE Res(Raise("UnboundLocalError"), 0)

\* generate_selected_frameworks passes generate_benchmark (company, product): two
\* positional arguments, where its signature requires three (company, scope, product)
BenchmarkPositionalsPassed == 2
BenchmarkPositionalsRequired == 3

\* the call self.generate_benchmark(company, product, peers=peers)
CallBenchmark(p, r, company, peers) ==
    IF BenchmarkPositionalsPassed < BenchmarkPositionalsRequired
    THEN Res(Raise("TypeError"), 0)
    ELSE generate_benchmark(p, r, company, peers, <<>>)

FitPlaceholder ==
    JD([matrix |-> JL(<<JD([capability |-> Wd("Core platform"), fit |-> Wd("High")]),
                        JD([capability |-> Wd("Go-to-market"), fit |-> Wd("Medium")]),
                        JD([capability |-> Wd("Operations"), fit |-> Wd("Medium")])>>)])

\* the frameworks in the order generate_selected_frameworks tests them, and their keys
FrameworkOrder == <<"Industry Analysis", "SWOT", "Ansoff", "Benchmark", "Fit Matrix">>
FrameworkKey == <<"ind", "SWOT", "Ansoff", "Benchmark", "Fit">>

\* the sub-call for the i-th framework; script[i] is what the provider does on it
FrameworkCall(i, p, script, company, peers) ==
    CASE i = 1 -> generate_Industry_Analysis(p, script[i])
      [] i = 2 -> generate_swot(p, script[i])
      [] i = 3 -> generate_ansoff(p, script[i])
      [] i = 4 -> CallBenchmark(p, script[i], company, peers)
      [] i = 5 -> Res(Ok(FitPlaceholder), 0)

RECURSIVE SelectedFrom(_, _, _, _, _, _, _, _)
\* the body of generate_selected_frameworks from the i-th test on
SelectedFrom(i, acc, n, fwset, p, script, company, peers) ==
    IF i > Len(FrameworkOrder) THEN Res(Ok(acc), n)
    ELSE IF <<FrameworkOrder[i]>> \notin fwset
         THEN SelectedFrom(i + 1, acc, n, fwset, p, script, company, peers)
         ELSE LET c == FrameworkCall(i, p, script, company, peers) IN
              IF IsExc(c.out) THEN Res(c.out, n + c.completes)
              ELSE SelectedFrom(i + 1, Put(acc, FrameworkKey[i], c.out.ok), n + c.completes,
                                fwset, p, script, company, peers)

\* frameworks: a set of names (the code turns the list into a set of stripped names)
generate_selected_frameworks(p, script, frameworks, company, peers) ==
    SelectedFrom(1, EmptyDict, 0, {Strip(f) : f \in frameworks}, p, script, company, peers)

----------------------------------------------------------------------------
(* swot_prompts.py *)

\* get_fallback_swot
get_fallback_swot ==
    JD([
        introduction |-> Wd("Analysis of industrial IoT sensors for manufacturing operations with focus on predictive maintenance capabilities."),
        S |-> JL(<<
            JD([text |-> Wd("Clear value proposition"), impact |-> JN(8),
                control |-> JN(9), priority |-> Wd("high"),
                solution |-> Wd("Launch case studies showcasing ROI to amplify market position")]),
            JD([text |-> Wd("Growing customer base"), impact |-> JN(7),
                control |-> JN(8), priority |-> Wd("high"),
                solution |-> Wd("Implement customer success program to maximize retention and expansion")]),
            JD([text |-> Wd("Experienced leadership"), impact |-> JN(6),
                control |-> JN(9), priority |-> Wd("high"),
                solution |-> Wd("Leverage leadership expertise for strategic partnerships and thought leadership")]),
            JD([text |-> Wd("Strong partner interest"), impact |-> JN(7),
                control |-> JN(7), priority |-> Wd("high"),
                solution |-> Wd("Formalize partner program with clear incentives and co-marketing")]) >>),
        W |-> JL(<<
            JD([text |-> Wd("Limited brand awareness"), impact |-> JN(6),
                control |-> JN(7), priority |-> Wd("medium"),
                solution |-> Wd("Execute targeted digital marketing campaign in key manufacturing verticals")]),
            JD([text |-> Wd("Thin mid-market coverage"), impact |-> JN(5),
                control |-> JN(8), priority |-> Wd("medium"),
                solution |-> Wd("Develop mid-market specific packaging and partner channel strategy")]),
            JD([text |-> Wd("Inconsistent messaging"), impact |-> JN(4),
                control |-> JN(9), priority |-> Wd("low")]) >>),
        O |-> JL(<<
            JD([text |-> Wd("Upsell existing accounts"), impact |-> JN(8),
                control |-> JN(7), priority |-> Wd("high"),
                solution |-> Wd("Create tiered product bundles for cross-sell into installed base")]),
            JD([text |-> Wd("New geography pilots"), impact |-> JN(7), control |-> JN(5),
                priority |-> Wd("medium"),
                solution |-> Wd("Partner with local distributors for APAC market entry pilot")]),
            JD([text |-> Wd("Alliances with integrators"), impact |-> JN(8),
                control |-> JN(6), priority |-> Wd("medium"),
                solution |-> Wd("Establish co-sell agreements with top three system integrators")]) >>),
        T |-> JL(<<
            JD([text |-> Wd("Price pressure from low-cost rivals"), impact |-> JN(7),
                control |-> JN(3), priority |-> Wd("medium"),
                solution |-> Wd("Differentiate on total cost of ownership and premium support")]),
            JD([text |-> Wd("Long sales cycles"), impact |-> JN(6), control |-> JN(4),
                priority |-> Wd("low")]),
            JD([text |-> Wd("Security/compliance scrutiny"), impact |-> JN(8),
                control |-> JN(5), priority |-> Wd("medium"),
                solution |-> Wd("Obtain SOC 2 certification and publish security whitepaper")]) >>),
        key_takeaway |-> Wd("Focus on leveraging strong partnerships while addressing brand gaps. Prioritize customer retention and explore geographic expansion to offset competitive pressures."),
        matrix_introduction |-> Wd("Priority matrix maps impact on success versus ability to influence, revealing strategic action priorities."),
        matrix_takeaway |-> Wd("Leverage high-control strengths like experienced leadership immediately. Address brand awareness gaps within your control. Partner strategically for low-control opportunities like new geographies. Monitor and prepare contingency plans for low-control threats."),
        roadmap_introduction |-> Wd("Strategic roadmap prioritizes actions across three time horizons to maximize impact and build sustainable competitive advantage."),
        roadmap_takeaway |-> Wd("Focus next quarter on high-ROI customer initiatives. This year, expand market presence and strengthen partnerships. Long-term, build infrastructure for scale and compliance readiness."),
        roadmap |-> JD([
            short_term |-> JL(<<
                JD([item_ref |-> Wd("S1"),
                    action |-> Wd("Launch case studies and ROI calculators to strengthen value proposition messaging")]),
                JD([item_ref |-> Wd("S2"),
                    action |-> Wd("Roll out customer success program to drive retention and expansion")]) >>),
            near_term |-> JL(<<
                JD([item_ref |-> Wd("O1"),
                    action |-> Wd("Develop and pilot upsell bundles with existing enterprise accounts")]),
                JD([item_ref |-> Wd("W1"),
                    action |-> Wd("Execute digital marketing campaign targeting manufacturing decision makers")]) >>),
            long_term |-> JL(<<
                JD([item_ref |-> Wd("O2"),
                    action |-> Wd("Establish APAC presence through distributor partnerships and local support")]),
                JD([item_ref |-> Wd("T3"),
                    action |-> Wd("Complete SOC 2 certification and build compliance framework")]) >>)])])

\* StrategyGenerator.is_available of the generator module
is_available(p) == p = "set"

\* StrategyGenerator.generate_json of the generator module: one complete() call, parsed
generate_json(p, r) ==
    IF IsExc(Complete(r)) THEN Complete(r) ELSE Ok(_extract_json(Complete(r).ok))

MaxItemsDefault == 8

(* generate_swot.process_items.  Iterating a number raises TypeError; a     *)
(* string is iterated character by character (token by token here).  A     *)
(* dict in the place of a list is outside the responses of the model.      *)
process_items(items, max_items) ==
    LET keep(item) == IsDict(item) \/ IsStr(item)
        conv(item) ==
            IF IsDict(item)
            THEN JD([text |-> Get(item, "text", JS(<<>>)),
                     impact |-> Get(item, "impact", JN(5)),
                     control |-> Get(item, "control", JN(5)),
                     priority |-> Get(item, "priority", Wd("low")),
                     solution |-> Get(item, "solution", JS(<<>>))])
            ELSE JD([text |-> item, impact |-> JN(5), control |-> JN(5)])
    IN  IF ~Truthy(items) THEN Ok(<<>>)
        ELSE CASE IsList(items) -> Ok(Take(SeqMap(SeqFilter(items.list, keep), conv), max_items))
               [] IsStr(items) -> Ok(Take([i \in 1..Len(items.str) |-> conv(Wd(items.str[i]))],
                                          max_items))
               [] IsNum(items) -> Raise("TypeError")

EmptyRoadmap == JD([short_term |-> JL(<<>>), near_term |-> JL(<<>>), long_term |-> JL(<<>>)])

\* x if x else default
OrElse(x, default) == IF Truthy(x) THEN x ELSE default

\* the try block of generate_swot: the returned dict, Ok(JNull) when no list has an
\* item (the code falls through to the fallback), or the exception raised
TrySwot(p, r, company, product, industry, max_items) ==
    LET result == generate_json(p, r) IN
    IF IsExc(result) THEN result
    ELSE IF ~IsDict(result.ok) THEN Raise("AttributeError")
    ELSE LET res == result.ok
             S == process_items(Get(res, "S", JNull), max_items)
             W == process_items(Get(res, "W", JNull), max_items)
             O == process_items(Get(res, "O", JNull), max_items)
             T == process_items(Get(res, "T", JNull), max_items)
         IN  IF IsExc(S) \/ IsExc(W) \/ IsExc(O) \/ IsExc(T) THEN Raise("TypeError")
             ELSE IF ~AnyNonEmpty(<<S.ok, W.ok, O.ok, T.ok>>) THEN Ok(JNull)
             ELSE Ok(JD([
                 introduction |-> OrElse(Get(res, "introduction", JS(<<>>)),
                     JS(<<"Strategic analysis for ">> \o company \o <<"'s ">> \o product
                        \o <<" in ">> \o industry \o <<".">>)),
                 S |-> JL(S.ok), W |-> JL(W.ok), O |-> JL(O.ok), T |-> JL(T.ok),
                 key_takeaway |-> OrElse(Get(res, "key_takeaway", JS(<<>>)),
                     Wd("Focus on building strengths while addressing weaknesses to capitalize on opportunities.")),
                 matrix_introduction |-> OrElse(Get(res, "matrix_introduction", JS(<<>>)),
                     Wd("Priority matrix based on impact and control to guide strategic resource allocation.")),
                 matrix_takeaway |-> OrElse(Get(res, "matrix_takeaway", JS(<<>>)),
                     Wd("Prioritize high-impact, high-control items for immediate action while developing strategies for lower-control factors.")),
                 roadmap_introduction |-> OrElse(Get(res, "roadmap_introduction", JS(<<>>)),
                     Wd("Strategic roadmap outlines phased approach to address priorities across time horizons.")),
                 roadmap_takeaway |-> OrElse(Get(res, "roadmap_takeaway", JS(<<>>)),
                     Wd("Execute quick wins now, build capabilities this year, and establish strategic positioning for long-term success.")),
                 roadmap |-> OrElse(Get(res, "roadmap", EmptyRoadmap), EmptyRoadmap)]))

\* swot_prompts.generate_swot
prompts_generate_swot(p, r, company, product, industry, max_items) ==
    IF ~is_available(p) THEN Res(Ok(get_fallback_swot), 0)
    ELSE LET t == TrySwot(p, r, company, product, industry, max_items) IN
         IF IsOk(t) /\ ~IsNull(t.ok) THEN Res(t, 1) ELSE Res(Ok(get_fallback_swot), 1)

RequiredKeys ==
    {"introduction", "S", "W", "O", "T", "key_takeaway", "matrix_introduction",
     "matrix_takeaway", "roadmap_introduction", "roadmap_takeaway", "roadmap"}

\* validate_swot
validate_swot(swot) ==
    /\ RequiredKeys \subseteq DOMAIN swot.dict
    /\ \A k \in {"S", "W", "O", "T"} : IsList(swot.dict[k]) /\ Len(swot.dict[k].list) > 0

----------------------------------------------------------------------------
(* What the provider may answer *)

\* bounds of the enumerated inputs
MaxItems == 7
MaxRows == 2

Prose == [prose |-> "Here is the analysis you asked for:"]
Direct(v) == <<[json |-> v]>>
Fenced(v) == <<Prose, [json |-> v], [prose |-> "Hope this helps."]>>

LongList(n) == JL([i \in 1..n |-> Wd(ToString(i))])

SomeDict == JD([note |-> Wd("n/a")])

\* texts that are no answer to any prompt: empty, prose only, two blocks, bare scalars
\* and lists, and a list wrapped in prose
CommonTexts ==
    { <<>>, <<Prose>>,
      <<[json |-> SomeDict], Prose, [json |-> SomeDict]>>,
      Fenced(JL(<<SomeDict, SomeDict>>)), Fenced(JL(<<JN(1), SomeDict>>)),
      Fenced(JN(5)), Direct(JL(<<>>)), Direct(JN(5)), Direct(JNull), Direct(Wd("text")),
      Direct(SomeDict) }

Unparseable(text) == text = <<>> \/ (IsExc(DirectParse(text)) /\ IsExc(BlockParse(text)))

ProviderError == [raise |-> "APIConnectionError"]
NoResp == [none |-> TRUE]

RespOf(texts) == {ProviderError} \cup {[text |-> t] : t \in texts}

\* a dict with the keys ks[i] for which vs[i] is not Absent
Absent == [absent |-> TRUE]
RECURSIVE DictOf(_, _)
DictOf(ks, vs) ==
    IF ks = <<>> THEN EmptyDict
    ELSE IF Head(vs) = Absent THEN DictOf(Tail(ks), Tail(vs))
    ELSE Put(DictOf(Tail(ks), Tail(vs)), Head(ks), Head(vs))

\* values a list field may hold in an answer
FieldVals ==
    { Absent, JNull, JL(<<>>), JL(<<Wd("alpha")>>),
      JL(<<JS(<<" ">>), JS(<<" ", "beta", "\t">>), JN(3)>>),
      Wd("scalar"), JS(<<" ">>), JN(0), LongList(MaxItems) }

SwotTexts ==
    CommonTexts \cup
    UNION { {Direct(DictOf(<<"S", "O">>, <<a, b>>)), Fenced(DictOf(<<"S", "O">>, <<a, b>>))} :
            a \in FieldVals, b \in {Absent, JL(<<Wd("Upsell existing accounts")>>)} }

AnsoffTexts ==
    CommonTexts \cup
    UNION { {Direct(DictOf(<<"market_penetration", "diversification">>, <<a, b>>)),
             Fenced(DictOf(<<"market_penetration", "diversification">>, <<a, b>>))} :
            a \in FieldVals, b \in {Absent, JL(<<Wd("Test vertical solution pack")>>)} }

IndTexts ==
    CommonTexts \cup {Direct(_fallback_ind), Fenced(_fallback_ind),
                      Direct(JD([industries |-> JL(<<>>)]))}

Company == "ACME"

\* rows of an answered benchmark table
RowKinds ==
    { JN(1),
      DictOf(<<Company>>, <<Wd("High")>>),
      DictOf(<<"capability", Company>>, <<JS(<<" ">>), Wd("High")>>),
      DictOf(<<"capability", Company, "PeerA", "Rival A">>,
             <<Wd("Brand strength"), Wd("High"), Wd("Low"), JS(<<" ", "Best-in-class">>)>>),
      DictOf(<<"capability", Company>>, <<JNull, JS(<<>>)>>) }

RECURSIVE SeqsUpTo(_, _)
\* the sequences over S of length 1..n
SeqsUpTo(S, n) ==
    IF n = 0 THEN {}
    ELSE LET shorter == SeqsUpTo(S, n - 1) IN
         {<<x>> : x \in S} \cup shorter \cup {Append(q, x) : q \in shorter, x \in S}

BenchTables ==
    {Absent, JNull, JL(<<>>), Wd("none")} \cup {JL(q) : q \in SeqsUpTo(RowKinds, MaxRows)}
    \cup {JL([i \in 1..(MaxRows + 1) |->
                DictOf(<<"capability", "PeerB">>, <<Wd(ToString(i)), Wd("Low")>>)])}

BenchTexts ==
    CommonTexts \cup {Direct(DictOf(<<"table", "peers">>, <<t, JL(<<>>)>>)) : t \in BenchTables}

PeersArgs == {<<>>, <<"Rival A", "Rival B">>}
CapsArgs == {<<>>, [i \in 1..MaxRows |-> "Capability " \o ToString(i)]}

\* items of an answered recommendation list
RecItems ==
    { JN(1),
      DictOf(<<"impact">>, <<JN(5)>>),
      DictOf(<<"title", "impact", "effort", "rationale">>,
             <<JS(<<" ", "OEM bundle program">>), JN(5), JN(2), Wd("Quick win")>>),
      DictOf(<<"title", "impact", "effort">>, <<Wd("AI platform"), Wd("7"), JN(0)>>),
      DictOf(<<"title", "impact">>, <<Wd("Plain"), Wd("high")>>),
      DictOf(<<"title", "effort">>, <<Wd("SKU simplification"), JNull>>),
      DictOf(<<"title">>, <<Wd("New geography pilots")>>) }

RecsTexts ==
    CommonTexts
    \cup {Direct(JL(q)) : q \in SeqsUpTo(RecItems, 2)}
    \cup {Direct(JL([i \in 1..MaxItems |-> DictOf(<<"title", "impact">>,
                                                   <<Wd(ToString(i)), JN(i)>>)]))}

\* analysis results handed to generate_recommendations
ResultsArgs ==
    { EmptyDict,
      JD([SWOT |-> _fallback_swot, Ansoff |-> _fallback_ansoff]),
      JD([SWOT |-> JD([S |-> JL(<<>>), W |-> JL(<<>>), O |-> JL(<<>>), T |-> JL(<<>>)])]),
      JD([SWOT |-> JD([O |-> LongList(MaxItems)])]),
      JD([SWOT |-> get_fallback_swot]),
      JD([Ansoff |-> JNull]) }

TopKArgs == {TopKDefault, 2, 0}

ScopeTexts == CommonTexts \cup {Direct(JD([scope |-> Wd("builds and sells robots")]))}

PromptsItemVals ==
    { Absent, JNull, JL(<<>>), JN(4), JL(<<JN(1)>>),
      JL(<<Wd("Reliable hardware"), JN(2)>>),
      JL(<<DictOf(<<"text", "impact", "control", "priority", "solution">>,
                  <<Wd("OEM partners"), JN(9), JN(2), Wd("medium"), Wd("Co-sell")>>),
           DictOf(<<"text", "impact", "control">>, <<Wd("Brand"), JN(12), JN(0)>>),
           DictOf(<<"impact">>, <<Wd("high")>>)>>),
      LongList(MaxItems + 2) }

PromptsTexts ==
    CommonTexts \cup
    { Direct(DictOf(<<"S", "T", "introduction", "roadmap">>, <<a, b, c, JL(<<>>)>>)) :
        a \in PromptsItemVals, b \in {Absent, JL(<<Wd("Price rivals")>>)},
        c \in {Absent, Wd("An introduction.")} }

FrameworkNames ==
    { <<"Industry Analysis">>, <<"SWOT">>, <<"Ansoff">>, <<"Benchmark">>, <<"Fit Matrix">>,
      <<" ", "SWOT", " ">>, <<"Porter">> }

GoodSwotText == Direct(DictOf(<<"S", "O">>, <<JL(<<Wd("alpha")>>), JL(<<>>)>>))
GoodAnsoffText == Direct(DictOf(<<"market_penetration">>, <<JL(<<Wd("alpha")>>)>>))
GoodBenchText ==
    Direct(DictOf(<<"table">>, <<JL(<<DictOf(<<"capability">>, <<Wd("Brand strength")>>)>>)>>))

\* what the provider does on each of the calls of one generate_selected_frameworks
Scripts ==
    { [i \in 1..5 |-> ProviderError],
      [i \in 1..5 |-> [text |-> <<Prose>>]],
      <<[text |-> Direct(_fallback_ind)], [text |-> GoodSwotText], [text |-> GoodAnsoffText],
        [text |-> GoodBenchText], NoResp>>,
      <<[text |-> <<>>], [text |-> GoodSwotText], ProviderError, [text |-> GoodBenchText],
        NoResp>> }

----------------------------------------------------------------------------
(* The generator as a state machine: a StrategyGenerator is constructed     *)
(* with or without a provider, and its public functions are called.         *)

vars == <<provider, call, env, step, wstate, uuids, shown, wcall, dcall>>

NoCall == [fn |-> "none"]

\* the responses a call may meet: none is asked for without a provider
Answers(texts) == IF provider = "set" THEN RespOf(texts) ELSE {NoResp}

\* the program is synchronous: a function is called when no call is being looked at
Idle == call = NoCall

GenInit ==
    /\ provider \in {"none", "set"}
    /\ call = NoCall

\* StrategyGenerator(provider)
NewGenerator ==
    /\ Idle
    /\ provider' \in {"none", "set"}
    /\ call' = NoCall
    /\ UNCHANGED <<wizVars, deckVars>>

CallIndustryAnalysis ==
    /\ Idle
    /\ \E r \in Answers(IndTexts) :
         call' = [fn |-> "generate_Industry_Analysis", resp |-> r,
                  res |-> generate_Industry_Analysis(provider, r)]
    /\ UNCHANGED <<provider, wizVars, deckVars>>

CallSwot ==
    /\ Idle
    /\ \E r \in Answers(SwotTexts) :
         call' = [fn |-> "generate_swot", resp |-> r, res |-> generate_swot(provider, r)]
    /\ UNCHANGED <<provider, wizVars, deckVars>>

CallAnsoff ==
    /\ Idle
    /\ \E r \in Answers(AnsoffTexts) :
         call' = [fn |-> "generate_ansoff", resp |-> r, res |-> generate_ansoff(provider, r)]
    /\ UNCHANGED <<provider, wizVars, deckVars>>

CallGenerateBenchmark ==
    /\ Idle
    /\ \E r \in Answers(BenchTexts), peers \in PeersArgs, caps \in CapsArgs :
         call' = [fn |-> "generate_benchmark", resp |-> r, peers |-> peers, caps |-> caps,
                  res |-> generate_benchmark(provider, r, Company, peers, caps)]
    /\ UNCHANGED <<provider, wizVars, deckVars>>

\* generate_recommendations on a given analysis, or on the mapping that
\* generate_selected_frameworks has just returned
CallRecommendations ==
    /\ Idle \/ (call.fn = "generate_selected_frameworks" /\ IsOk(call.res.out))
    /\ \E r \in Answers(RecsTexts), k \in TopKArgs,
          a \in ResultsArgs \cup
                (IF call.fn = "generate_selected_frameworks" /\ IsOk(call.res.out)
                 THEN {call.res.out.ok} ELSE {}) :
         call' = [fn |-> "generate_recommendations", resp |-> r, results |-> a, top_k |-> k,
                  res |-> generate_recommendations(provider, r, a, k)]
    /\ UNCHANGED <<provider, wizVars, deckVars>>

CallSelectedFrameworks ==
    /\ Idle
    /\ \E fw \in SUBSET FrameworkNames, peers \in PeersArgs,
          script \in (IF provider = "set" THEN Scripts ELSE {[i \in 1..5 |-> NoResp]}) :
         call' = [fn |-> "generate_selected_frameworks", frameworks |-> fw, peers |-> peers,
                  resp |-> script,
                  res |-> generate_selected_frameworks(provider, script, fw, Company, peers)]
    /\ UNCHANGED <<provider, wizVars, deckVars>>

CallScope ==
    /\ Idle
    /\ \E r \in Answers(ScopeTexts) :
         call' = [fn |-> "generate_scope", resp |-> r, res |-> generate_scope(provider, r)]
    /\ UNCHANGED <<provider, wizVars, deckVars>>

CallPromptsSwot ==
    /\ Idle
    /\ \E r \in Answers(PromptsTexts) :
         call' = [fn |-> "swot_prompts.generate_swot", resp |-> r,
                  res |-> prompts_generate_swot(provider, r, <<"ACME Robotics">>,
                                                <<"Industrial IoT Sensors">>,
                                                <<"Manufacturing">>, MaxItemsDefault)]
    /\ UNCHANGED <<provider, wizVars, deckVars>>

\* the caller is done with the result of the last call
Return ==
    /\ ~Idle
    /\ call' = NoCall
    /\ UNCHANGED <<provider, wizVars, deckVars>>

GenNext ==
    \/ NewGenerator
    \/ Return
    \/ CallIndustryAnalysis
    \/ CallSwot
    \/ CallAnsoff
    \/ CallGenerateBenchmark
    \/ CallRecommendations
    \/ CallSelectedFrameworks
    \/ CallScope
    \/ CallPromptsSwot

----------------------------------------------------------------------------
(* swot.py: the SWOT wizard *)

\* _list_to_text: the texts of the items, one per line
RECURSIVE JoinLines(_)
JoinLines(lines) ==
    IF lines = <<>> THEN <<>>
    ELSE IF Len(lines) = 1 THEN lines[1]
    ELSE lines[1] \o <<"\n">> \o JoinLines(Tail(lines))

_list_to_text(items) ==
    IF ~Truthy(items) THEN <<>>
    ELSE LET line(item) == IF IsDict(item) THEN Get(item, "text", JS(<<>>)).str
                                           ELSE PyStr(item)
         IN  JoinLines(SeqMap(items.list, line))

RECURSIVE SplitLines(_, _)
\* str.splitlines(): cur is the line being read
SplitLines(txt, cur) ==
    IF txt = <<>> THEN (IF cur = <<>> THEN <<>> ELSE <<cur>>)
    ELSE IF Head(txt) = "\n" THEN <<cur>> \o SplitLines(Tail(txt), <<>>)
    ELSE SplitLines(Tail(txt), Append(cur, Head(txt)))

\* the characters of x.strip(" \t-<bullet>"); the bullet dot is the token "(bullet)"
BulletChars == {" ", "\t", "-", "(bullet)"}

RECURSIVE StripChars(_, _)
\* str.strip(chars)
StripChars(s, chars) ==
    IF s # <<>> /\ Head(s) \in chars THEN StripChars(Tail(s), chars)
    ELSE IF s # <<>> /\ s[Len(s)] \in chars THEN StripChars(SubSeq(s, 1, Len(s) - 1), chars)
    ELSE s

\* _text_to_list that marks every line it reads as a high priority
Mutant_text_to_list(txt) ==
    LET keep(x) == Strip(x) # <<>>
        item(x) == JD([text |-> JS(StripChars(x, BulletChars)), impact |-> JN(5),
                       control |-> JN(5), priority |-> Wd("high")])
    IN  SeqMap(SeqFilter(SplitLines(txt, <<>>), keep), item)

\* _text_to_list
_text_to_list(txt) ==
    LET keep(x) == Strip(x) # <<>>
        item(x) == JD([text |-> JS(StripChars(x, BulletChars)), impact |-> JN(5),
                       control |-> JN(5)])
    IN  SeqMap(SeqFilter(SplitLines(txt, <<>>), keep), item)

EmptySwot == JD([S |-> JL(<<>>), W |-> JL(<<>>), O |-> JL(<<>>), T |-> JL(<<>>)])

\* the initial session state with the given analysis identifier; swot is
\* state["results"]["SWOT"]
InitialState(id) ==
    [analysis_id |-> id, company |-> <<>>, product |-> <<>>, industry |-> <<>>,
     scope |-> <<>>, geo |-> <<>>, notes |-> <<>>, swot |-> EmptySwot]

\* _get_generator that never finds the key missing
Mutant_get_generator(e) == [gen |-> "set", msg |-> ""]

(* _get_generator: the generator, or None when the generator modules did    *)
(* not import, no API key is in the environment or the secrets, or the     *)
(* provider cannot be constructed (OpenAIProvider raises without the SDK).  *)
_get_generator(e) ==
    IF ~e.modules THEN [gen |-> "none", msg |-> "Generator modules not available."]
    ELSE IF e.key = "none" THEN [gen |-> "none", msg |-> "API key not found in environment or secrets."]
    ELSE IF ~e.sdk THEN [gen |-> "none", msg |-> "Error creating generator"]
    ELSE IF is_available("set") THEN [gen |-> "set", msg |-> ""]
    ELSE [gen |-> "none", msg |-> "Generator created but provider not available."]

MsgRequired == "Company and Product are required."
MsgNoProvider == "LLM provider connection is not available. Please check your API key configuration."
MsgGenerated == "SWOT generated."

\* on_generate that takes only the empty string for a blank input
Mutant_on_generate(e, st, stp, r) ==
    IF st.company = <<>> \/ st.product = <<>>
    THEN [step |-> stp, state |-> st, shown |-> <<MsgRequired>>, completes |-> 0]
    ELSE IF _get_generator(e).gen = "none"
    THEN [step |-> stp, state |-> st, shown |-> <<_get_generator(e).msg, MsgNoProvider>>,
          completes |-> 0]
    ELSE LET g == prompts_generate_swot(_get_generator(e).gen, r, st.company, st.product,
                                        st.industry, MaxItemsDefault)
         IN  [step |-> 1, state |-> [st EXCEPT !.swot = g.out.ok], shown |-> <<MsgGenerated>>,
              completes |-> g.completes]

(* run.on_generate: the new step, session state, messages and provider      *)
(* interaction, for the provider response r.                                *)
on_generate(e, st, stp, r) ==
    IF Strip(st.company) = <<>> \/ Strip(st.product) = <<>>
    THEN [step |-> stp, state |-> st, shown |-> <<MsgRequired>>, completes |-> 0]
    ELSE IF _get_generator(e).gen = "none"
    THEN [step |-> stp, state |-> st, shown |-> <<_get_generator(e).msg, MsgNoProvider>>,
          completes |-> 0]
    ELSE LET g == prompts_generate_swot(_get_generator(e).gen, r, st.company, st.product,
                                        st.industry, MaxItemsDefault)
         IN  [step |-> 1, state |-> [st EXCEPT !.swot = g.out.ok], shown |-> <<MsgGenerated>>,
              completes |-> g.completes]

\* bounds of the wizard runs
MaxResets == 1

Envs ==
    { [modules |-> TRUE, key |-> "env", sdk |-> TRUE],
      [modules |-> TRUE, key |-> "secrets", sdk |-> TRUE],
      [modules |-> TRUE, key |-> "none", sdk |-> TRUE],
      [modules |-> TRUE, key |-> "env", sdk |-> FALSE],
      [modules |-> FALSE, key |-> "env", sdk |-> TRUE] }

\* what the user may have typed into the inputs of step 0
Forms ==
    { [company |-> <<>>, product |-> <<>>, industry |-> <<>>, scope |-> <<>>,
       geo |-> <<>>, notes |-> <<>>],
      [company |-> <<" ", "\t">>, product |-> <<"Edge IoT Sensors">>, industry |-> <<>>,
       scope |-> <<>>, geo |-> <<>>, notes |-> <<>>],
      [company |-> <<"Emerson">>, product |-> <<" ">>, industry |-> <<"Manufacturing">>,
       scope |-> <<>>, geo |-> <<"US">>, notes |-> <<>>],
      [company |-> <<"Emerson">>, product |-> <<"Edge IoT Sensors">>, industry |-> <<>>,
       scope |-> <<>>, geo |-> <<>>, notes |-> <<>>],
      [company |-> <<" ", "Emerson">>, product |-> <<"Edge", " ", "IoT", " ", "Sensors">>,
       industry |-> <<"Manufacturing">>, scope |-> <<"Identifying bearing failure">>,
       geo |-> <<"US">>, notes |-> <<"Mid-market focus">>] }

\* what the provider may answer to the wizard's SWOT prompt
WizItemVals ==
    { Absent, JL(<<Wd("Reliable hardware"), JN(2)>>),
      JL(<<DictOf(<<"text", "impact", "control", "priority", "solution">>,
                  <<Wd("OEM partners"), JN(9), JN(2), Wd("medium"), Wd("Co-sell")>>),
           DictOf(<<"impact">>, <<Wd("high")>>)>>),
      LongList(MaxItems + 2) }

WizResponses ==
    RespOf({<<>>, <<Prose>>, Direct(JL(<<>>))} \cup
           { Direct(DictOf(<<"S", "T", "introduction">>, <<a, b, Wd("An introduction.")>>)) :
               a \in WizItemVals, b \in {Absent, JL(<<Wd("Price rivals")>>)} })

RECURSIVE LinesOf(_)
\* n numbered lines of text
LinesOf(n) ==
    IF n = 0 THEN <<>>
    ELSE IF n = 1 THEN <<"Line 1">>
    ELSE LinesOf(n - 1) \o <<"\n", "Line " \o ToString(n)>>

\* what the user may leave in a text area of step 2 that shows the text t:
\* the text as it is, nothing, the text with lines added once, or other lines
UserTexts(t) ==
    { t, <<>>, LinesOf(MaxItemsDefault + 1) }
    \cup (IF \E i \in 1..Len(t) : t[i] = "Added by the user" THEN {}
          ELSE {t \o <<"\n", "-", " ", "Added by the user", " ", "\n", "\t", "\n", "(bullet)">>})

\* the last Generate request, while it is the last thing that happened
NoWCall == [fn |-> "none"]

WizInit ==
    /\ env \in Envs
    /\ step = 0
    /\ uuids = 1
    /\ wstate = InitialState(1)
    /\ shown = <<>>
    /\ wcall = NoWCall

\* step 0: the input widgets write the typed values into the session state
EditInputs ==
    /\ step = 0
    /\ \E f \in Forms :
         wstate' = [wstate EXCEPT !.company = f.company, !.product = f.product,
                                  !.industry = f.industry, !.scope = f.scope,
                                  !.geo = f.geo, !.notes = f.notes]
    /\ shown' = <<>>
    /\ wcall' = NoWCall
    /\ UNCHANGED <<env, step, uuids, genVars, deckVars>>

(* step 0: a Generate request runs on_generate.  (With no generator the      *)
(* button is rendered disabled and on_generate refuses again.)              *)
Generate ==
    /\ step = 0
    /\ \E r \in WizResponses :
         LET o == on_generate(env, wstate, step, r) IN
         /\ step' = o.step
         /\ wstate' = o.state
         /\ shown' = o.shown
         /\ wcall' = [fn |-> "on_generate", before |-> wstate,
                      resp |-> IF o.completes > 0 THEN r ELSE NoResp,
                      completes |-> o.completes]
    /\ UNCHANGED <<env, uuids, genVars, deckVars>>

BackToInputs ==
    /\ step = 1
    /\ step' = 0
    /\ shown' = <<>>
    /\ wcall' = NoWCall
    /\ UNCHANGED <<env, wstate, uuids, genVars, deckVars>>

EditResults ==
    /\ step = 1
    /\ step' = 2
    /\ shown' = <<>>
    /\ wcall' = NoWCall
    /\ UNCHANGED <<env, wstate, uuids, genVars, deckVars>>

Export ==
    /\ step = 1
    /\ step' = 3
    /\ shown' = <<>>
    /\ wcall' = NoWCall
    /\ UNCHANGED <<env, wstate, uuids, genVars, deckVars>>

\* a back button of step 2 that leads to the inputs
Mutant_BackToView ==
    /\ step = 2
    /\ step' = 0
    /\ shown' = <<>>
    /\ wcall' = NoWCall
    /\ UNCHANGED <<env, wstate, uuids, genVars, deckVars>>

BackToView ==
    /\ step = 2
    /\ step' = 1
    /\ shown' = <<>>
    /\ wcall' = NoWCall
    /\ UNCHANGED <<env, wstate, uuids, genVars, deckVars>>

\* step 2, Save & Continue: the four text areas are parsed back into the lists
SaveAndContinue ==
    /\ step = 2
    /\ LET sw == wstate.swot.dict IN
       \E new_S \in UserTexts(_list_to_text(sw["S"])), keep \in BOOLEAN :
         LET other(k) == IF keep THEN _list_to_text(sw[k]) ELSE <<>> IN
         wstate' = [wstate EXCEPT !.swot =
                      JD([k \in DOMAIN sw |->
                            CASE k = "S" -> JL(_text_to_list(new_S))
                              [] k \in {"W", "O", "T"} -> JL(_text_to_list(other(k)))
                              [] OTHER -> sw[k]])]
    /\ step' = 3
    /\ shown' = <<>>
    /\ wcall' = NoWCall
    /\ UNCHANGED <<env, uuids, genVars, deckVars>>

\* step 3, the button labelled "Back to Edit"
BackToEdit ==
    /\ step = 3
    /\ step' = 1
    /\ shown' = <<>>
    /\ wcall' = NoWCall
    /\ UNCHANGED <<env, wstate, uuids, genVars, deckVars>>

\* a reset that keeps the analysis identifier of the session
Mutant_StartNewAnalysis ==
    /\ step = 3
    /\ uuids <= MaxResets
    /\ step' = 0
    /\ uuids' = uuids + 1
    /\ wstate' = InitialState(wstate.analysis_id)
    /\ shown' = <<>>
    /\ wcall' = NoWCall
    /\ UNCHANGED <<env, genVars, deckVars>>

\* step 3, Start New Analysis
StartNewAnalysis ==
    /\ step = 3
    /\ uuids <= MaxResets
    /\ step' = 0
    /\ uuids' = uuids + 1
    /\ wstate' = InitialState(uuids + 1)
    /\ shown' = <<>>
    /\ wcall' = NoWCall
    /\ UNCHANGED <<env, genVars, deckVars>>

WizNext ==
    \/ EditInputs
    \/ Generate
    \/ BackToInputs
    \/ EditResults
    \/ Export
    \/ BackToView
    \/ SaveAndContinue
    \/ BackToEdit
    \/ StartNewAnalysis

----------------------------------------------------------------------------
(* export_ppt.py: the deck builder *)

(* Lengths are in EMU.  Inches(m) is pptx.util.Inches for m thousandths     *)
(* of an inch: int(inches * 914400).  The halves the code computes          *)
(* (width/2, height/2) are floats: a local length is kept doubled (its      *)
(* name ends in 2), and a shape stores the truncated integer, as            *)
(* add_textbox and add_shape format it.                                     *)
Inches(m) == (m * 9144) \div 10

W == Inches(13333)
H == Inches(7500)
MARGIN == Inches(800)

Abs(x) == IF x < 0 THEN -x ELSE x

\* the integer a shape stores for the doubled length x2
Stored(x2) == x2 \div 2

Shape(kind, left2, top2, width2, height2) ==
    [kind |-> kind, left |-> Stored(left2), top |-> Stored(top2),
     width |-> Stored(width2), height |-> Stored(height2)]

\* _grid: the quadrants (l, t, w, h), doubled: Q1 TL, Q2 TR, Q3 BL, Q4 BR
_grid(left, top, width, height) ==
    << <<2 * left, 2 * top, width, height>>,
       <<2 * left + width, 2 * top, width, height>>,
       <<2 * left, 2 * top + height, width, height>>,
       <<2 * left + width, 2 * top + height, width, height>> >>

\* the shapes _grid draws: the outer rectangle and the two cross-lines
GridShapes(left, top, width, height) ==
    << Shape("rect", 2 * left, 2 * top, 2 * width, 2 * height),
       Shape("line", 2 * left + width, 2 * top, 0, 2 * height),
       Shape("line", 2 * left, 2 * top + height, 2 * width, 0) >>

\* _add_small_label
_add_small_label(left, top) == Shape("label", 2 * left, 2 * top, 2 * Inches(2000), 2 * Inches(300))

\* the title placeholder of the "Title Only" layout (python-pptx default template)
TitleShape == [kind |-> "title", left |-> 457200, top |-> 274638, width |-> 8229600,
               height |-> 1143000]

MaxRecsOnSlide == 10

\* the thresholds with effort cut at < 3
Mutant_QuadrantOf(impact, effort) ==
    IF impact >= 4 /\ effort < 3 THEN 1
    ELSE IF impact >= 4 /\ effort >= 3 THEN 2
    ELSE IF impact < 4 /\ effort < 3 THEN 3
    ELSE 4

\* the quadrant (1..4) of slide_recommendations for an impact and an effort
QuadrantOf(impact, effort) ==
    IF impact >= 4 /\ effort <= 3 THEN 1
    ELSE IF impact >= 4 /\ effort > 3 THEN 2
    ELSE IF impact < 4 /\ effort <= 3 THEN 3
    ELSE 4

\* the placement without the scan of the shapes
Mutant_AvoidOverlap(shapes, i, left2, top2, height) == top2

RECURSIVE AvoidOverlap(_, _, _, _, _)
\* the scan over the shapes already on the slide, from the i-th on: the doubled top
AvoidOverlap(shapes, i, left2, top2, height) ==
    IF i > Len(shapes) THEN top2
    ELSE IF Abs(left2 - 2 * shapes[i].left) <= 2 /\ Abs(top2 - 2 * shapes[i].top) <= 2
         THEN AvoidOverlap(shapes, i + 1, left2, 2 * (shapes[i].top + height), height)
         ELSE AvoidOverlap(shapes, i + 1, left2, top2, height)

\* one pass of the placement loop: the text box of the idx-th recommendation
PlaceRec(shapes, q, idx, rec) ==
    LET impact == PyInt(Get(rec, "impact", JN(3))).ok
        effort == PyInt(Get(rec, "effort", JN(3))).ok
        n == QuadrantOf(impact, effort)
        quad == q[n]
        left2 == quad[1] + 2 * Inches(120)
        top2 == quad[2] + 2 * Inches(120)
        width2 == quad[3] - 2 * Inches(240)
        height == Inches(500)
        box == Shape("rec", left2, AvoidOverlap(shapes, 1, left2, top2, height), width2,
                     2 * height)
    IN  box @@ [idx |-> idx, quad |-> n,
                title |-> Get(rec, "title", JS(<<"Rec ", ToString(idx)>>))]

RECURSIVE PlaceAll(_, _, _, _)
PlaceAll(shapes, q, recs, idx) ==
    IF idx > Len(recs) THEN shapes
    ELSE PlaceAll(Append(shapes, PlaceRec(shapes, q, idx, recs[idx])), q, recs, idx + 1)

\* a record of the list cannot be placed: it is no dict, or int() rejects a field
BadRec(rec) ==
    \/ ~IsDict(rec)
    \/ IsExc(PyInt(Get(rec, "impact", JN(3))))
    \/ IsExc(PyInt(Get(rec, "effort", JN(3))))

\* slide_recommendations: the slide, or the exception of the first bad record
slide_recommendations(recs) ==
    LET grid_left == MARGIN
        grid_top == Inches(2000)
        grid_w == W - 2 * MARGIN
        grid_h == Inches(4600)
        q == _grid(grid_left, grid_top, grid_w, grid_h)
        first == <<TitleShape>> \o GridShapes(grid_left, grid_top, grid_w, grid_h)
                 \o << _add_small_label(grid_left - Inches(1100),
                                        grid_top + grid_h - Inches(1000)),
                       _add_small_label(grid_left + grid_w - Inches(800),
                                        grid_top + grid_h + Inches(50)) >>
        shown10 == Take(recs, MaxRecsOnSlide)
        legend == Shape("legend", 2 * MARGIN, 2 * (grid_top + grid_h + Inches(200)),
                        2 * (W - 2 * MARGIN), 2 * Inches(600))
        bad == {i \in 1..Len(shown10) : BadRec(shown10[i])}
    IN  IF bad # {}
        THEN LET rec == shown10[CHOOSE i \in bad : \A j \in bad : i <= j]
                 impact == PyInt(Get(rec, "impact", JN(3)))
             IN  IF ~IsDict(rec) THEN Raise("AttributeError")
                 ELSE IF IsExc(impact) THEN impact
                 ELSE PyInt(Get(rec, "effort", JN(3)))
        ELSE Ok([heading |-> <<"Top 5 Recommendations - Impact x Effort">>,
                 shapes |-> Append(PlaceAll(first, q, shown10, 1), legend)])

\* a text of n characters, and the slice text[i:j] of one: the range of the
\* positions it holds
TextOf(n) == [lo |-> 1, hi |-> n]
TextLen(t) == IF t.hi < t.lo THEN 0 ELSE t.hi - t.lo + 1
\* a slice that runs past the end of the text
Mutant_Slice(t, i, j) == [lo |-> t.lo + i, hi |-> t.lo + j - 1]
Slice(t, i, j) == [lo |-> t.lo + i, hi |-> Min(t.lo + j - 1, t.hi)]

MAX_CHARS == 2000

\* range(0, n, step)
RangeBy(n, by) == [k \in 1..((n + by - 1) \div by) |-> (k - 1) * by]

\* slide_appendix_json: the slides it adds, in order
slide_appendix_json(title, text) ==
    LET starts == RangeBy(TextLen(text), MAX_CHARS)
        sliced == [k \in 1..Len(starts) |-> Slice(text, starts[k], starts[k] + MAX_CHARS)]
        chunks == IF sliced # <<>> THEN sliced ELSE <<text>>
    IN  [i \in 1..Len(chunks) |->
            [heading |-> title \o (IF i > 1 THEN <<" (cont.)">> ELSE <<>>),
             text |-> chunks[i]]]

AppendixTitle == <<"Appendix - Raw Analysis JSON">>

\* slide_benchmark: None, the slide, or the exception of a malformed section
slide_benchmark(company, bench) ==
    LET table == IF Truthy(Get(bench, "table", JNull)) THEN Get(bench, "table", JNull)
                 ELSE JL(<<>>)
        peers == IF Truthy(Get(bench, "peers", JNull)) THEN Get(bench, "peers", JNull)
                 ELSE JL(<<>>)
    IN  IF ~Truthy(table) THEN Ok(JNull)
        ELSE IF ~IsList(peers) \/ \E j \in 1..Len(peers.list) : ~IsStr(peers.list[j])
        THEN Raise("TypeError")
        ELSE IF ~IsList(table) \/ \E i \in 1..Len(table.list) : ~IsDict(table.list[i])
        THEN Raise("AttributeError")
        ELSE LET hdrs == <<<<"Capability">>, company>> \o SeqMap(peers.list, PyStr)
                 cellOf(row, h) == PyStr(Get(row, h, JS(<<>>)))
                 vals(row) == <<cellOf(row, "capability"),
                                IF Len(company) = 1 THEN cellOf(row, company[1]) ELSE <<>>>>
                              \o [j \in 1..Len(peers.list) |->
                                    IF Len(peers.list[j].str) = 1
                                    THEN cellOf(row, peers.list[j].str[1]) ELSE <<>>]
             IN  Ok([heading |-> <<"Competitor Benchmark">>,
                     cols |-> 2 + Len(peers.list),
                     rows |-> 1 + Len(table.list),
                     cells |-> <<hdrs>> \o SeqMap(table.list, vals)])

RECURSIVE SetToSeq(_)
\* the elements of a set in some fixed order
SetToSeq(S) == IF S = {} THEN <<>>
               ELSE LET x == CHOOSE y \in S : TRUE IN <<x>> \o SetToSeq(S \ {x})

RECURSIVE Flatten(_)
Flatten(qs) == IF qs = <<>> THEN <<>> ELSE Head(qs) \o Flatten(Tail(qs))

\* an industry item ind_to_long_records cannot read
BadIndustry(item) ==
    \/ ~IsDict(item)
    \/ LET cs == Get(item, "Critical_success_category", EmptyDict)
       IN  Truthy(cs) /\ ~IsDict(cs)

\* ind_to_long_records: the long records, or the exception of a malformed item
ind_to_long_records(ind_raw) ==
    LET industries == IF IsList(ind_raw) THEN ind_raw
                      ELSE IF IsDict(ind_raw) THEN Get(ind_raw, "industries", JL(<<>>))
                      ELSE JL(<<>>)
        recordsOf(item) ==
            LET industry == Get(item, "industry_vertical_name", JS(<<>>))
                tam == Get(item, "TAM", JS(<<>>))
                got == Get(item, "Critical_success_category", EmptyDict)
                cs == IF Truthy(got) THEN got ELSE EmptyDict
                ofCategory(category) ==
                    LET factors == cs.dict[category]
                        rec(rank, factor) ==
                            [Industry |-> industry, TAM |-> tam, Category |-> category,
                             Rank |-> rank, Factor |-> PyStr(factor)]
                    IN  IF IsList(factors)
                        THEN [r \in 1..Len(factors.list) |-> rec(r, factors.list[r])]
                        ELSE <<rec(1, factors)>>
            IN  Flatten(SeqMap(SetToSeq(DOMAIN cs.dict), ofCategory))
    IN  IF ~IsList(industries) THEN Raise("TypeError")
        ELSE IF \E i \in 1..Len(industries.list) : BadIndustry(industries.list[i])
        THEN Raise("AttributeError")
        ELSE Ok(Flatten(SeqMap(industries.list, recordsOf)))

\* slide_ind: None when there is no record, else the table slide
slide_ind(ind_raw) ==
    LET records == ind_to_long_records(ind_raw) IN
    IF IsExc(records) THEN records
    ELSE IF records.ok = <<>> THEN Ok(JNull)
    ELSE Ok([heading |-> <<"INDUSTRY ANALYSIS">>,
             rows |-> Len(records.ok) + 1,
             cols |-> 5,
             records |-> records.ok])

\* _add_bullets: one paragraph per item, str(item); the items are a list or falsy
Bullets(items) == IF ~Truthy(items) THEN <<>> ELSE SeqMap(items.list, PyStr)

\* slide_swot
slide_swot(swot) ==
    LET cell(title, k) == [title |-> title, items |-> Bullets(Get(swot, k, JL(<<>>)))]
    IN  [heading |-> <<"SWOT">>,
         cells |-> <<cell("Strengths", "S"), cell("Weaknesses", "W"),
                     cell("Opportunities", "O"), cell("Threats", "T")>>]

\* slide_ansoff
slide_ansoff(ansoff) ==
    LET cell(title, k) == [title |-> title, items |-> Bullets(Get(ansoff, k, JL(<<>>)))]
    IN  [heading |-> <<"Ansoff Matrix">>,
         cells |-> <<cell("Market Penetration", "market_penetration"),
                     cell("Product Development", "product_development"),
                     cell("Market Development", "market_development"),
                     cell("Diversification", "diversification")>>]

\* slide_agenda with its default items
slide_agenda ==
    [heading |-> <<"Agenda">>,
     bullets |-> <<<<"Inputs & Goals">>, <<"Framework Insights">>, <<"Recommendations">>,
                   <<"Next Steps">>>>]

\* slide_exec_snapshot
slide_exec_snapshot(bullets) == [heading |-> <<"Executive Snapshot">>, bullets |-> bullets]

\* a title slide headed with the date line too
Mutant_add_title(title, subtitle) == [heading |-> title \o subtitle, subtitle |-> subtitle]

\* _add_title
_add_title(title, subtitle) == [heading |-> title, subtitle |-> subtitle]

RECURSIVE JoinComma(_)
\* ', '.join(items)
JoinComma(items) ==
    IF items = <<>> THEN <<>>
    ELSE IF Len(items) = 1 THEN items[1]
    ELSE items[1] \o <<", ">> \o JoinComma(Tail(items))

\* str.replace(" ", "_")
Underscored(s) == [i \in 1..Len(s) |-> IF s[i] = " " THEN "_" ELSE s[i]]

\* str(n) padded with zeros to w digits, as strftime pads %Y, %m and %d
Pad(n, w) ==
    LET t == ToString(n) IN
    IF w = 4 THEN (IF n < 10 THEN "000" \o t ELSE IF n < 100 THEN "00" \o t
                   ELSE IF n < 1000 THEN "0" \o t ELSE t)
    ELSE (IF n < 10 THEN "0" \o t ELSE t)

MonthAbbr == <<"Jan", "Feb", "Mar", "Apr", "May", "Jun", "Jul", "Aug", "Sep", "Oct", "Nov", "Dec">>

\* datetime.now().strftime("%b %d, %Y") and strftime('%Y%m%d'); now is [y, m, d]
StrfDate(now) == MonthAbbr[now.m] \o " " \o Pad(now.d, 2) \o ", " \o Pad(now.y, 4)
StrfStamp(now) == Pad(now.y, 4) \o Pad(now.m, 2) \o Pad(now.d, 2)

SwotKeys == <<"S", "W", "O", "T">>
SwotLabels == <<"Strengths: ", "Weaknesses: ", "Opportunities: ", "Threats: ">>

\* the first two items of a SWOT list cannot be joined: one of them is no string
Unjoinable(v) == \E i \in 1..Len(Take(v.list, 2)) : ~IsStr(v.list[i])

\* the snapshot with the top priority checked first
Mutant_Snapshot(results, swot, recs) ==
    LET line(i) == LET v == Get(swot, SwotKeys[i], JNull) IN
                   IF Truthy(v)
                   THEN << <<SwotLabels[i]>> \o JoinComma(SeqMap(Take(v.list, 2), PyStr)) >>
                   ELSE <<>>
        ind == IF Truthy(Get(results, "ind", JNull)) THEN << <<"Industry Analysis">> >>
               ELSE <<>>
        ans == IF Truthy(Get(results, "Ansoff", JNull))
               THEN << <<"Focus: Execute 1-2 high-impact Ansoff plays next quarter.">> >>
               ELSE <<>>
        top == IF Truthy(recs) /\ IsDict(recs.list[1])
               THEN << <<"Top priority: ">>
                       \o PyStr(Get(recs.list[1], "title", JS(<<"First recommendation">>))) >>
               ELSE <<>>
    IN  Ok(top \o ind \o line(1) \o line(2) \o line(3) \o line(4) \o ans)

\* the snapshot bullets of build_ppt_from_state, or the exception of the step
Snapshot(results, swot, recs) ==
    LET anySwot == \E i \in 1..4 : Truthy(Get(swot, SwotKeys[i], JNull))
        line(i) == LET v == Get(swot, SwotKeys[i], JNull) IN
                   IF anySwot /\ Truthy(v)
                   THEN << <<SwotLabels[i]>> \o JoinComma(SeqMap(Take(v.list, 2), PyStr)) >>
                   ELSE <<>>
        ind == IF Truthy(Get(results, "ind", JNull)) THEN << <<"Industry Analysis">> >>
               ELSE <<>>
        ans == IF Truthy(Get(results, "Ansoff", JNull))
               THEN << <<"Focus: Execute 1-2 high-impact Ansoff plays next quarter.">> >>
               ELSE <<>>
        top == IF Truthy(recs)
               THEN << <<"Top priority: ">>
                       \o PyStr(Get(recs.list[1], "title", JS(<<"First recommendation">>))) >>
               ELSE <<>>
    IN  IF anySwot /\ \E i \in 1..4 : LET v == Get(swot, SwotKeys[i], JNull)
                                      IN  Truthy(v) /\ Unjoinable(v)
        THEN Raise("TypeError")
        ELSE IF Truthy(recs) /\ ~IsDict(recs.list[1]) THEN Raise("AttributeError")
        ELSE Ok(ind \o line(1) \o line(2) \o line(3) \o line(4) \o ans \o top)

SnapshotCap == 6

\* x or y
Or(x, y) == IF Truthy(x) THEN x ELSE y

\* a pass that needs a slide from every section: a skipped one fails it
Mutant_Section(name, o) ==
    [name |-> name,
     exc |-> IF IsExc(o) THEN o.exc ELSE IF o.ok = JNull THEN "AttributeError" ELSE "none",
     slides |-> IF IsExc(o) THEN <<>> ELSE IF o.ok = JNull THEN <<>> ELSE <<o.ok>>]

\* the slides of a section: none for None, the exception carried over
Section(name, o) ==
    [name |-> name,
     exc |-> IF IsExc(o) THEN o.exc ELSE "none",
     slides |-> IF IsExc(o) THEN <<>> ELSE IF o.ok = JNull THEN <<>> ELSE <<o.ok>>]

RECURSIVE Mutant_RunSections(_, _, _)
\* a pass that puts the slides of each section before those of the earlier ones
Mutant_RunSections(sections, i, slides) ==
    IF i > Len(sections) THEN [result |-> Ok(slides), section |-> "none"]
    ELSE IF sections[i].exc # "none"
         THEN [result |-> Raise(sections[i].exc), section |-> sections[i].name]
         ELSE Mutant_RunSections(sections, i + 1, sections[i].slides \o slides)

RECURSIVE RunSections(_, _, _)
\* the linear pass: the slides of the sections up to the first that raises
RunSections(sections, i, slides) ==
    IF i > Len(sections) THEN [result |-> Ok(slides), section |-> "none"]
    ELSE IF sections[i].exc # "none"
         THEN [result |-> Raise(sections[i].exc), section |-> sections[i].name]
         ELSE RunSections(sections, i + 1, slides \o sections[i].slides)

\* the benchmark step that builds the slide whatever the table holds
Mutant_BenchmarkSection(company, bench) ==
    LET peers == Or(Get(bench, "peers", JNull), JL(<<>>)) IN
    IF ~IsList(peers) THEN Raise("TypeError")
    ELSE Ok([heading |-> <<"Competitor Benchmark">>, cols |-> 2 + Len(peers.list),
             rows |-> 1, cells |-> <<>>])

\* the benchmark step of build_ppt_from_state
BenchmarkSection(company, bench) ==
    IF ~IsDict(bench) THEN Raise("AttributeError")
    ELSE IF Truthy(Get(bench, "table", JNull)) THEN slide_benchmark(company, bench)
    ELSE Ok(JNull)

\* build_ppt_from_state: the slides of the deck and the file name, or the
\* exception and the section that raised it.  raw is the text json.dumps
\* returns, now the day datetime.now() gives.
build_ppt_from_state(state, raw, now) ==
    LET company == Strip(Or(Get(state, "company", JNull), JS(<<"Company">>)).str)
        product == Strip(Or(Get(state, "product", JNull), JS(<<"Product">>)).str)
        results == Or(Get(state, "results", JNull), EmptyDict)
        recs == Or(Get(state, "recs", JNull), JL(<<>>))
        swot == Or(Get(results, "SWOT", JNull), EmptyDict)
        Ind == Or(Get(results, "ind", JNull), EmptyDict)
        ansoff == Or(Get(results, "Ansoff", JNull), EmptyDict)
        bench == Or(Get(results, "Benchmark", JNull), EmptyDict)
        snapshot == Snapshot(results, swot, recs)
        sections == <<
            Section("Title", Ok(_add_title(product \o <<" x ">> \o company,
                                           <<"Strategy Snapshot - ", StrfDate(now)>>))),
            Section("Agenda", Ok(slide_agenda)),
            Section("Executive Snapshot",
                    IF IsExc(snapshot) THEN snapshot
                    ELSE Ok(slide_exec_snapshot(Take(snapshot.ok, SnapshotCap)))),
            Section("Industry Analysis", IF Truthy(Ind) THEN slide_ind(Ind) ELSE Ok(JNull)),
            Section("SWOT", IF Truthy(swot) THEN Ok(slide_swot(swot)) ELSE Ok(JNull)),
            Section("Ansoff", IF Truthy(ansoff) THEN Ok(slide_ansoff(ansoff)) ELSE Ok(JNull)),
            Section("Benchmark", BenchmarkSection(company, bench)),
            Section("Recommendations",
                    IF Truthy(recs) THEN slide_recommendations(recs.list) ELSE Ok(JNull)) >>
        pass == RunSections(sections, 1, <<>>)
        fname == Underscored(company) \o <<"_">> \o Underscored(product)
                 \o <<"_", StrfStamp(now), "_strategy.pptx">>
    IN  IF IsExc(pass.result) THEN pass
        ELSE [result |-> Ok([slides |-> pass.result.ok
                                        \o slide_appendix_json(AppendixTitle, raw),
                             fname |-> fname]),
              section |-> "none"]

----------------------------------------------------------------------------
(* The deck builder as a state machine: its functions are called on         *)
(* recommendation lists, texts, benchmark sections and session states.      *)

\* bounds of the inputs
MaxFree == 2
MaxRun == 11
MaxChunks == 2

\* a recommendation record; Absent leaves the field out
Rec(title, impact, effort) == DictOf(<<"title", "impact", "effort">>, <<title, impact, effort>>)

\* the recommendations that are mixed freely: one per quadrant, the defaults,
\* and fields that are numerals
FreeRecs ==
    { Rec(Wd("Bundle"), JN(5), JN(2)), Rec(Wd("Platform"), JN(4), JN(4)),
      Rec(Wd("Moonshot"), JN(3), JN(4)), Rec(Absent, Absent, Absent),
      Rec(Wd("Pilot"), Wd("4"), JS(<<" ", "3">>)) }

\* the recommendations that come in runs: one per quadrant
RunRecs ==
    { Rec(Wd("Quick"), JN(4), JN(3)), Rec(Wd("Bet"), JN(5), JN(5)),
      Rec(Wd("Fill"), JN(3), JN(3)), Rec(Wd("Long"), JN(1), JN(4)) }

\* the impacts and efforts of the single recommendations: around the scale 1..5
Scores == 0..6

\* recommendations slide_recommendations cannot place
BadRecs == { Wd("Bundle"), Rec(Wd("Plain"), Wd("high"), JN(2)), Rec(Wd("Plain"), JN(4), JNull) }

\* the lists the heuristic path of generate_recommendations returns for the
\* analyses of the model
HeuristicLists ==
    { HeuristicRecs(res, k).ok.list :
        <<res, k>> \in {x \in ResultsArgs \X TopKArgs : IsOk(HeuristicRecs(x[1], x[2]))} }

RecLists ==
    {<<>>}
    \cup HeuristicLists
    \cup {<<Rec(Wd("Only"), JN(i), JN(e))>> : i \in Scores, e \in Scores}
    \cup {<<Rec(Wd("Only"), JN(i), Absent)>> : i \in Scores}
    \cup {<<Rec(Wd("Only"), Absent, JN(e))>> : e \in Scores}
    \cup {free \o [k \in 1..n |-> r] : free \in SeqsUpTo(FreeRecs, MaxFree) \cup {<<>>},
                                       r \in RunRecs, n \in 1..MaxRun}
    \cup {[k \in 1..n |-> r] \o free : free \in SeqsUpTo(FreeRecs, MaxFree),
                                       r \in RunRecs, n \in 1..MaxRun}
    \cup {<<Rec(Wd("Bundle"), JN(5), JN(2)), b>> : b \in BadRecs}
    \cup {[k \in 1..MaxRecsOnSlide |-> Rec(Wd("Quick"), JN(4), JN(3))] \o <<b>> : b \in BadRecs}

\* the lengths of the texts: around the multiples of the chunk size
TextLens == {k * MAX_CHARS + d : k \in 0..MaxChunks, d \in {0, 1, 500, MAX_CHARS - 1}}

AppendixTitles == {AppendixTitle, <<"Notes">>}

\* the company names of the deck
DeckCompanies == {<<"ACME">>, <<"ACME", " ", "Robotics">>}

BenchRow == DictOf(<<"capability", "ACME", "PeerA">>, <<Wd("Brand strength"), Wd("High"), JN(2)>>)

\* the "Benchmark" entries of the results; Absent is the missing key
BenchSections ==
    { Absent, JNull, EmptyDict,
      DictOf(<<"peers">>, <<StrList(DefaultPeers)>>),
      DictOf(<<"table">>, <<JL(<<>>)>>),
      DictOf(<<"table", "peers">>, <<JL(<<>>), StrList(DefaultPeers)>>),
      DictOf(<<"table", "peers">>, <<JL(<<>>), JN(3)>>),
      DictOf(<<"table", "peers">>, <<JNull, JL(<<JN(1)>>)>>),
      DictOf(<<"table">>, <<JL(<<BenchRow>>)>>),
      DictOf(<<"table", "peers">>, <<JL(<<BenchRow, EmptyDict>>), StrList(DefaultPeers)>>),
      DictOf(<<"table", "peers">>, <<JL(<<BenchRow>>), Wd("PeerA")>>),
      DictOf(<<"table", "peers">>, <<JL(<<JN(1)>>), JL(<<>>)>>),
      _fallback_benchmark("ACME", DefaultPeers, _DEF_BENCH_CAPS) }

\* an Ansoff result whose four lists are empty
EmptyAnsoff ==
    JD([market_penetration |-> JL(<<>>), market_development |-> JL(<<>>),
        product_development |-> JL(<<>>), diversification |-> JL(<<>>)])

\* what the company and product entries may hold: missing, None, empty, typed
\* values, values with spaces around and inside, and whitespace only
DeckNames ==
    { <<Absent, Absent>>, <<JNull, JNull>>,
      <<JS(<<"ACME">>), JS(<<"Edge", " ", "IoT">>)>>,
      <<JS(<<" ", "ACME", " ", "Robotics", "\n">>), JS(<<>>)>>,
      <<JS(<<" ">>), JS(<<"\t", " ">>)>> }

\* the "recs" entries
DeckRecs ==
    { Absent, JNull, JL(<<>>), JL(<<Rec(Wd("Bundle"), JN(5), JN(2))>>),
      JL(<<Rec(Absent, JN(3), JN(4)), Wd("Bundle")>>) }

\* the "results" entries in which every section is missing, None, empty or filled
DeckResults ==
    { DictOf(<<"ind", "SWOT", "Ansoff", "Benchmark">>, <<ind, swot, ansoff, bench>>) :
        ind \in {Absent, JNull, EmptyDict, _fallback_ind, JD([industries |-> JL(<<>>)])},
        swot \in {Absent, JNull, EmptyDict, EmptySwot, _fallback_swot, get_fallback_swot},
        ansoff \in {Absent, JNull, EmptyDict, EmptyAnsoff, _fallback_ansoff},
        bench \in { Absent, JNull, DictOf(<<"table", "peers">>, <<JL(<<>>), StrList(DefaultPeers)>>),
                    DictOf(<<"table">>, <<JL(<<BenchRow>>)>>),
                    _fallback_benchmark("ACME", DefaultPeers, _DEF_BENCH_CAPS) } }

\* the session states handed to build_ppt_from_state: the sections in every
\* combination under typed names, every Benchmark entry under two SWOT
\* results, and the names in every form over a few results
DeckStates ==
    { DictOf(<<"company", "product", "frameworks", "results", "recs">>,
             <<JS(<<"ACME">>), JS(<<"Edge", " ", "IoT">>), JL(<<>>), results, recs>>) :
        results \in DeckResults, recs \in DeckRecs }
    \cup
    { DictOf(<<"company", "product", "frameworks", "results", "recs">>,
             <<JS(<<"ACME">>), JS(<<"Edge", " ", "IoT">>), JL(<<>>),
               DictOf(<<"SWOT", "Benchmark">>, <<swot, bench>>), recs>>) :
        swot \in {Absent, _fallback_swot}, bench \in BenchSections,
        recs \in {Absent, JL(<<Rec(Wd("Bundle"), JN(5), JN(2))>>)} }
    \cup
    { DictOf(<<"company", "product", "frameworks", "results", "recs">>,
             <<names[1], names[2], frameworks, results, recs>>) :
        names \in DeckNames, frameworks \in {Absent, JNull, JL(<<>>)},
        results \in { Absent, JNull, EmptyDict,
                      JD([ind |-> _fallback_ind, SWOT |-> _fallback_swot,
                          Ansoff |-> _fallback_ansoff]) },
        recs \in {Absent, JL(<<Rec(Wd("Bundle"), JN(5), JN(2))>>)} }

\* the lengths json.dumps may give the appendix text of a deck
RawLens == {MAX_CHARS \div 2, MAX_CHARS, MAX_CHARS + 1}

\* the days on which a deck is built
Days == {[y |-> 2026, m |-> 1, d |-> 5], [y |-> 2026, m |-> 11, d |-> 30]}

\* the state dictionary after build_ppt_from_state has run on it: the function
\* reads its entries and assigns none
StateAfterBuild(state) == state

\* what a later build is compared with: the outcome of a build
Outcome(res) ==
    IF IsExc(res.result) THEN [raised |-> res.result.exc, section |-> res.section]
    ELSE [headings |-> SeqMap(res.result.ok.slides, LAMBDA sl : sl.heading)]

DeckIdle == dcall = NoCall

DeckInit == dcall = NoCall

CallSlideRecommendations ==
    /\ DeckIdle
    /\ \E recs \in RecLists :
         dcall' = [fn |-> "slide_recommendations", recs |-> recs,
                   res |-> slide_recommendations(recs)]
    /\ UNCHANGED <<genVars, wizVars>>

CallSlideAppendixJson ==
    /\ DeckIdle
    /\ \E title \in AppendixTitles, n \in TextLens :
         dcall' = [fn |-> "slide_appendix_json", title |-> title, text |-> TextOf(n),
                   res |-> slide_appendix_json(title, TextOf(n))]
    /\ UNCHANGED <<genVars, wizVars>>

CallSlideBenchmark ==
    /\ DeckIdle
    /\ \E company \in DeckCompanies, bench \in {b \in BenchSections : IsDict(b)} :
         dcall' = [fn |-> "slide_benchmark", company |-> company, bench |-> bench,
                   res |-> slide_benchmark(company, bench)]
    /\ UNCHANGED <<genVars, wizVars>>

\* a deck is built from a session state; first is the outcome of the build
\* before it on the same state dictionary, none for the first
CallBuild ==
    /\ DeckIdle
    /\ \E state \in DeckStates, n \in RawLens, now \in Days :
         dcall' = [fn |-> "build_ppt_from_state", state |-> state, raw |-> TextOf(n),
                   now |-> now, res |-> build_ppt_from_state(state, TextOf(n), now),
                   after |-> StateAfterBuild(state), first |-> NoCall]
    /\ UNCHANGED <<genVars, wizVars>>

\* the caller builds a second deck from the state dictionary it has just
\* built one from, on the same or on a later day
CallBuildAgain ==
    /\ dcall.fn = "build_ppt_from_state"
    /\ dcall.first = NoCall
    /\ \E now \in Days :
         dcall' = [fn |-> "build_ppt_from_state", state |-> dcall.after, raw |-> dcall.raw,
                   now |-> now, res |-> build_ppt_from_state(dcall.after, dcall.raw, now),
                   after |-> StateAfterBuild(dcall.after),
                   first |-> [state |-> dcall.state, after |-> dcall.after, now |-> dcall.now,
                              outcome |-> Outcome(dcall.res)]]
    /\ UNCHANGED <<genVars, wizVars>>

\* the caller is done with the result of the last call
DeckReturn ==
    /\ ~DeckIdle
    /\ dcall' = NoCall
    /\ UNCHANGED <<genVars, wizVars>>

DeckNext ==
    \/ CallSlideRecommendations
    \/ CallSlideAppendixJson
    \/ CallSlideBenchmark
    \/ CallBuild
    \/ CallBuildAgain
    \/ DeckReturn

----------------------------------------------------------------------------
(* The specifications: one per part of the program, the other parts at rest *)

GenQuiet == provider = "none" /\ call = NoCall

WizQuiet ==
    /\ env = [modules |-> TRUE, key |-> "none", sdk |-> TRUE]
    /\ step = 0
    /\ uuids = 1
    /\ wstate = InitialState(1)
    /\ shown = <<>>
    /\ wcall = NoWCall

DeckQuiet == dcall = NoCall

InitGen == GenInit /\ WizQuiet /\ DeckQuiet
InitWizard == WizInit /\ GenQuiet /\ DeckQuiet
InitDeck == DeckInit /\ GenQuiet /\ WizQuiet

SpecGen == InitGen /\ [][GenNext]_vars

SpecWizard == InitWizard /\ [][WizNext]_vars

SpecDeck == InitDeck /\ [][DeckNext]_vars

----------------------------------------------------------------------------
(* Properties of the generators, checked under SpecGen *)

\* the peers and capabilities generate_benchmark works with for the given arguments
PeersUsed(peersArg) == IF peersArg = <<>> THEN DefaultPeers ELSE peersArg
CapsUsed(capsArg) == IF capsArg = <<>> THEN _DEF_BENCH_CAPS ELSE capsArg

\* a non-empty list is stored under each of the keys
NonEmptyLists(d, keys) ==
    \A k \in keys : k \in DOMAIN d.dict /\ IsList(d.dict[k]) /\ Len(d.dict[k].list) > 0

(* C1: with the provider unset, each framework generator of                 *)
(* StrategyGenerator (industry analysis, SWOT, Ansoff, benchmark) and       *)
(* generate_swot of swot_prompts returns its fixed fallback structure and   *)
(* makes no provider call; both fallback SWOTs hold non-empty S, W, O and T *)
(* lists, and the one of swot_prompts has every required key.               *)
C1_FallbackWithoutProvider ==
    provider = "none" =>
        /\ call.fn = "generate_Industry_Analysis" => call.res = Res(Ok(_fallback_ind), 0)
        /\ call.fn = "generate_swot" =>
              /\ call.res = Res(Ok(_fallback_swot), 0)
              /\ NonEmptyLists(call.res.out.ok, {"S", "W", "O", "T"})
        /\ call.fn = "generate_ansoff" => call.res = Res(Ok(_fallback_ansoff), 0)
        /\ call.fn = "generate_benchmark" =>
              call.res = Res(Ok(_fallback_benchmark(Company, PeersUsed(call.peers),
                                                    CapsUsed(call.caps))), 0)
        /\ call.fn = "swot_prompts.generate_swot" =>
              /\ call.res = Res(Ok(get_fallback_swot), 0)
              /\ NonEmptyLists(call.res.out.ok, {"S", "W", "O", "T"})
              /\ RequiredKeys \subseteq DOMAIN call.res.out.ok.dict
              /\ validate_swot(call.res.out.ok)

\* swot_prompts.generate_swot has returned its fallback without a provider
C1_Witness ==
    /\ provider = "none"
    /\ call.fn = "swot_prompts.generate_swot"
    /\ call.res.completes = 0
    /\ call.res.out = Ok(get_fallback_swot)

\* the five framework names and the key of each
C2_Names == {<<FrameworkOrder[i]>> : i \in 1..5}
C2_KeyOf(name) == FrameworkKey[CHOOSE i \in 1..5 : <<FrameworkOrder[i]>> = name]
C2_Fallback(key, peers) ==
    CASE key = "ind" -> _fallback_ind
      [] key = "SWOT" -> _fallback_swot
      [] key = "Ansoff" -> _fallback_ansoff
      [] key = "Benchmark" -> _fallback_benchmark(Company, PeersUsed(peers), _DEF_BENCH_CAPS)
      [] key = "Fit" -> FitPlaceholder

(* C2: with no provider, generate_selected_frameworks on any subset of the  *)
(* five framework names returns, without raising, a mapping whose keys are  *)
(* exactly the keys of the selected frameworks, each holding the fallback   *)
(* of its framework; generate_recommendations without a provider returns a  *)
(* non-empty list on the results it is handed.                              *)
C2_SelectedFrameworksWithoutProvider ==
    /\ (provider = "none" /\ call.fn = "generate_selected_frameworks"
           /\ call.frameworks \subseteq C2_Names) =>
          /\ IsOk(call.res.out)
          /\ DOMAIN call.res.out.ok.dict = {C2_KeyOf(f) : f \in call.frameworks}
          /\ \A k \in DOMAIN call.res.out.ok.dict :
                call.res.out.ok.dict[k] = C2_Fallback(k, call.peers)
    /\ (provider = "none" /\ call.fn = "generate_recommendations"
           /\ \A k \in DOMAIN call.results.dict : call.results.dict[k] = C2_Fallback(k, <<>>)) =>
          /\ IsOk(call.res.out)
          /\ Len(call.res.out.ok.list) > 0

\* the value each generator returns when no provider is configured
C4_WithoutProvider ==
    CASE call.fn = "generate_Industry_Analysis" -> generate_Industry_Analysis("none", NoResp)
      [] call.fn = "generate_swot" -> generate_swot("none", NoResp)
      [] call.fn = "generate_ansoff" -> generate_ansoff("none", NoResp)
      [] call.fn = "generate_benchmark" ->
            generate_benchmark("none", NoResp, Company, call.peers, call.caps)
      [] call.fn = "generate_recommendations" ->
            generate_recommendations("none", NoResp, call.results, call.top_k)
      [] call.fn = "swot_prompts.generate_swot" ->
            prompts_generate_swot("none", NoResp, <<>>, <<>>, <<>>, MaxItemsDefault)

C4_Generators ==
    {"generate_Industry_Analysis", "generate_swot", "generate_ansoff", "generate_benchmark",
     "generate_recommendations", "swot_prompts.generate_swot"}

(* C4: when the provider's complete call raises, each framework generator   *)
(* (industry analysis, SWOT, Ansoff, benchmark, recommendations, and        *)
(* generate_swot of swot_prompts) catches the error and returns the value   *)
(* it returns when no provider is configured.                               *)
C4_ProviderErrorCaught ==
    (provider = "set" /\ call.fn \in C4_Generators /\ call.resp = ProviderError) =>
        call.res.out = C4_WithoutProvider.out

C5_Generators ==
    {"generate_Industry_Analysis", "generate_swot", "generate_ansoff", "generate_benchmark"}

(* C5: when the provider returns a text from which no JSON value can be     *)
(* parsed, directly or from a brace-delimited block, the parse result is    *)
(* the empty mapping and the framework generator returns its fallback       *)
(* value.                                                                   *)
C5_UnparseableGivesFallback ==
    (provider = "set" /\ call.fn \in C5_Generators /\ "text" \in DOMAIN call.resp
        /\ Unparseable(call.resp.text)) =>
        /\ _extract_json(call.resp.text) = EmptyDict
        /\ call.res.out = C4_WithoutProvider.out

\* a rating is stored under the key
C6_Rated(row, k) == k \in DOMAIN row.dict /\ IsStr(row.dict[k]) /\ Strip(row.dict[k].str) # <<>>

(* C6: for every provider response, the table generate_benchmark returns    *)
(* has at least one row and at most len(caps) rows, and every row has a     *)
(* non-empty capability and a rating for the company and for each peer.     *)
C6_BenchmarkNeverPartial ==
    (call.fn = "generate_benchmark" /\ "text" \in DOMAIN call.resp /\ IsOk(call.res.out)) =>
        LET table == call.res.out.ok.dict["table"].list
            peers == PeersUsed(call.peers)
        IN  /\ Len(table) >= 1
            /\ Len(table) <= Len(CapsUsed(call.caps))
            /\ \A i \in 1..Len(table) :
                  /\ C6_Rated(table[i], "capability")
                  /\ C6_Rated(table[i], Company)
                  /\ \A j \in 1..Len(peers) : C6_Rated(table[i], peers[j])

----------------------------------------------------------------------------
(* Properties of the wizard, checked under SpecWizard *)

\* a Generate request has just been handled with no API key and non-blank inputs
C3_RequestWithoutKey ==
    /\ wcall.fn = "on_generate"
    /\ env.modules /\ env.key = "none"
    /\ Strip(wcall.before.company) # <<>>
    /\ Strip(wcall.before.product) # <<>>

----------------------------------------------------------------------------
(* Properties of the deck builder, checked under SpecDeck *)

\* the recommendation boxes of a slide, in the order they were placed
RecBoxes(slide) == SeqFilter(slide.shapes, LAMBDA s : s.kind = "rec")

\* the quadrant the thresholds name for an impact and an effort
C7_Quadrant(impact, effort) ==
    CASE impact >= 4 /\ effort <= 3 -> "Quick Wins"
      [] impact >= 4 /\ effort > 3 -> "Strategic Bets"
      [] impact < 4 /\ effort <= 3 -> "Fill-ins"
      [] impact < 4 /\ effort > 3 -> "Long Shots"

QuadrantNames == <<"Quick Wins", "Strategic Bets", "Fill-ins", "Long Shots">>

\* the left of the boxes of a column and the top of the first box of a row
ColumnLeft(name) ==
    IF name \in {"Quick Wins", "Fill-ins"} THEN MARGIN + Inches(120)
    ELSE Stored(2 * MARGIN + (W - 2 * MARGIN) + 2 * Inches(120))
RowTop(name) ==
    IF name \in {"Quick Wins", "Strategic Bets"} THEN Inches(2000) + Inches(120)
    ELSE Inches(2000) + Inches(4600) \div 2 + Inches(120)

\* the box is one of the stack of the named quadrant
InQuadrant(s, name) ==
    /\ s.left = ColumnLeft(name)
    /\ s.top >= RowTop(name)
    /\ (s.top - RowTop(name)) % Inches(500) = 0

\* the integer a field of a record holds, 3 when it is absent
C7_Field(rec, k) == IF k \in DOMAIN rec.dict THEN rec.dict[k].num ELSE 3
C7_Integers(rec) ==
    \A k \in {"impact", "effort"} : k \in DOMAIN rec.dict => IsNum(rec.dict[k])

(* C7: slide_recommendations gives every recommendation with integer        *)
(* impact and effort one box, in exactly one quadrant: Quick Wins (top      *)
(* left) iff impact >= 4 and effort <= 3, Strategic Bets (top right) iff    *)
(* impact >= 4 and effort > 3, Fill-ins (bottom left) iff impact < 4 and    *)
(* effort <= 3, Long Shots (bottom right) iff impact < 4 and effort > 3; a  *)
(* missing impact or effort counts as 3.                                    *)
C7_QuadrantAssignment ==
    (dcall.fn = "slide_recommendations" /\ IsOk(dcall.res)) =>
        LET boxes == RecBoxes(dcall.res.ok) IN
        /\ Len(boxes) = Min(Len(dcall.recs), 10)
        /\ \A b \in 1..Len(boxes) :
              LET rec == dcall.recs[b] IN
              /\ boxes[b].idx = b
              /\ C7_Integers(rec) =>
                    \A n \in 1..4 :
                        InQuadrant(boxes[b], QuadrantNames[n])
                        <=> QuadrantNames[n] = C7_Quadrant(C7_Field(rec, "impact"),
                                                           C7_Field(rec, "effort"))

\* impact 5, effort 2 has been placed in Quick Wins, alone on its slide
C7_Witness ==
    /\ dcall.fn = "slide_recommendations"
    /\ Len(dcall.recs) = 1
    /\ C7_Integers(dcall.recs[1])
    /\ C7_Field(dcall.recs[1], "impact") = 5
    /\ C7_Field(dcall.recs[1], "effort") = 2
    /\ IsOk(dcall.res)
    /\ InQuadrant(RecBoxes(dcall.res.ok)[1], "Quick Wins")

(* C8: the boxes slide_recommendations places in one quadrant are stacked:  *)
(* the k-th box of a quadrant has the left offset of the quadrant and a top *)
(* (k-1) row heights of 0.5 in below the top of the first, so that no two   *)
(* boxes of a quadrant share a top-left corner or overlap.                  *)
C8_StackedWithoutCollision ==
    (dcall.fn = "slide_recommendations" /\ IsOk(dcall.res)) =>
        LET boxes == RecBoxes(dcall.res.ok)
            same(b) == {a \in 1..Len(boxes) : boxes[a].quad = boxes[b].quad}
            first(b) == boxes[CHOOSE a \in same(b) : \A c \in same(b) : a <= c]
            k(b) == Cardinality({a \in same(b) : a <= b})
        IN  /\ \A b \in 1..Len(boxes) :
                  /\ boxes[b].left = ColumnLeft(QuadrantNames[boxes[b].quad])
                  /\ first(b).top = RowTop(QuadrantNames[boxes[b].quad])
                  /\ boxes[b].top = first(b).top + (k(b) - 1) * Inches(500)
                  /\ boxes[b].height = Inches(500)
            /\ \A a, b \in 1..Len(boxes) :
                  (a # b /\ boxes[a].quad = boxes[b].quad) =>
                      Abs(boxes[a].top - boxes[b].top) >= Inches(500)

\* ten boxes on a slide, of two quadrants, one of them holding three or more
C8_Witness ==
    /\ dcall.fn = "slide_recommendations"
    /\ IsOk(dcall.res)
    /\ LET boxes == RecBoxes(dcall.res.ok) IN
       /\ Len(boxes) = 10
       /\ \E a, b \in 1..10 : boxes[a].quad # boxes[b].quad
       /\ \E b \in 1..10 : boxes[b].top >= RowTop(QuadrantNames[boxes[b].quad]) + 2 * Inches(500)

(* C9: slide_appendix_json splits a text of n characters into ceil(n/2000)  *)
(* consecutive chunks, one slide when n = 0; each chunk has at most 2000    *)
(* characters, all but the last exactly 2000, and together in slide order   *)
(* they are the text; the first slide has the bare title, each later one    *)
(* the title with " (cont.)"; 4500 characters give 3 slides.                *)
C9_AppendixChunks ==
    dcall.fn = "slide_appendix_json" =>
        LET n == TextLen(dcall.text)
            slides == dcall.res
            count == IF n = 0 THEN 1 ELSE (n + 1999) \div 2000
        IN  /\ Len(slides) = count
            /\ n = 4500 => Len(slides) = 3
            /\ slides[1].text.lo = dcall.text.lo
            /\ slides[count].text.hi = dcall.text.hi
            /\ \A i \in 1..count :
                  /\ TextLen(slides[i].text) <= 2000
                  /\ i < count => TextLen(slides[i].text) = 2000
                  /\ i < count => slides[i + 1].text.lo = slides[i].text.hi + 1
                  /\ slides[i].heading = IF i = 1 THEN dcall.title
                                         ELSE dcall.title \o <<" (cont.)">>

\* a text of 4500 characters has been split into three slides
C9_Witness ==
    /\ dcall.fn = "slide_appendix_json"
    /\ TextLen(dcall.text) = 4500
    /\ Len(dcall.res) = 3
    /\ TextLen(dcall.res[3].text) = 500

\* the Benchmark result of a state is missing, has no table key, or has an empty table
C10_NoTable(state) ==
    LET results == Get(state, "results", JNull) IN
    \/ ~IsDict(results)
    \/ "Benchmark" \notin DOMAIN results.dict
    \/ /\ IsDict(results.dict["Benchmark"])
       /\ \/ "table" \notin DOMAIN results.dict["Benchmark"].dict
          \/ results.dict["Benchmark"].dict["table"] = JL(<<>>)

\* the state without its Benchmark result
C10_WithoutBenchmark(state) ==
    LET results == Get(state, "results", JNull) IN
    IF ~IsDict(results) THEN state
    ELSE Put(state, "results",
             JD([k \in DOMAIN results.dict \ {"Benchmark"} |-> results.dict[k]]))

(* C10: on a state whose Benchmark result is missing, has no table key or   *)
(* has an empty table, build_ppt_from_state adds no slide headed            *)
(* "Competitor Benchmark" and the benchmark step raises nothing, whatever   *)
(* the peers are: the build raises only if it raises without the Benchmark  *)
(* result too.  slide_benchmark itself returns None on such a section.      *)
C10_NoBenchmarkSlide ==
    /\ (dcall.fn = "build_ppt_from_state" /\ C10_NoTable(dcall.state)) =>
          /\ dcall.res.section # "Benchmark"
          /\ IsOk(build_ppt_from_state(C10_WithoutBenchmark(dcall.state), dcall.raw,
                                       dcall.now).result)
                => IsOk(dcall.res.result)
          /\ IsOk(dcall.res.result) =>
                \A i \in 1..Len(dcall.res.result.ok.slides) :
                    dcall.res.result.ok.slides[i].heading # <<"Competitor Benchmark">>
    /\ (dcall.fn = "slide_benchmark" /\ ~Truthy(Get(dcall.bench, "table", JNull))) =>
          dcall.res = Ok(JNull)

\* a deck has been built from a state with an empty table and peers that are no list
C10_Witness ==
    /\ dcall.fn = "build_ppt_from_state"
    /\ C10_NoTable(dcall.state)
    /\ IsDict(Get(dcall.state, "results", JNull))
    /\ "Benchmark" \in DOMAIN dcall.state.dict["results"].dict
    /\ IsDict(dcall.state.dict["results"].dict["Benchmark"])
    /\ IsNum(Get(dcall.state.dict["results"].dict["Benchmark"], "peers", JNull))
    /\ IsOk(dcall.res.result)

\* a second deck has been built from the state dictionary of a first
C11_Rebuilt == dcall.fn = "build_ppt_from_state" /\ dcall.first # NoCall

C12_WithoutSwot(state) ==
    Put(state, "results",
        JD([k \in DOMAIN state.dict["results"].dict \ {"SWOT"} |->
              state.dict["results"].dict[k]]))

\* a deck has been asked for from a state whose results["SWOT"] is a fallback
\* SWOT of the generators, and whose other entries build a deck
C12_FallbackSwotFed ==
    /\ dcall.fn = "build_ppt_from_state"
    /\ IsDict(Get(dcall.state, "results", JNull))
    /\ Get(dcall.state.dict["results"], "SWOT", JNull) \in {_fallback_swot, get_fallback_swot}
    /\ IsOk(build_ppt_from_state(C12_WithoutSwot(dcall.state), dcall.raw, dcall.now).result)

(* C12: build_ppt_from_state on a state whose results["SWOT"] is the        *)
(* fallback SWOT of generate.py or of swot_prompts.py does not raise, and   *)
(* the deck has a SWOT slide whose four boxes (Strengths, Weaknesses,       *)
(* Opportunities, Threats) hold at least one bullet each.                   *)
C12_FallbackSwotFillsQuadrants ==
    C12_FallbackSwotFed =>
        /\ IsOk(dcall.res.result)
        /\ \E i \in 1..Len(dcall.res.result.ok.slides) :
              LET slide == dcall.res.result.ok.slides[i] IN
              /\ slide.heading = <<"SWOT">>
              /\ [c \in 1..4 |-> slide.cells[c].title]
                    = <<"Strengths", "Weaknesses", "Opportunities", "Threats">>
              /\ \A c \in 1..4 : Len(slide.cells[c].items) >= 1

\* the entry k of the mapping d is absent, None or empty
C13_Blank(d, k) == k \notin DOMAIN d.dict \/ ~Truthy(d.dict[k])

\* the entry is absent, None or empty, or holds a value of the kind Good
C13_Entry(d, k, Good(_)) == C13_Blank(d, k) \/ Good(d.dict[k])

\* the kinds of the filled entries: a mapping of lists of strings (SWOT,
\* Ansoff), an industry analysis, a benchmark of rows and peer names, a list
\* of recommendation records
C13_StrLists(v) ==
    /\ IsDict(v)
    /\ \A k \in DOMAIN v.dict :
          IsList(v.dict[k]) /\ \A i \in 1..Len(v.dict[k].list) : IsStr(v.dict[k].list[i])
C13_Ind(v) == v \in {_fallback_ind, JD([industries |-> JL(<<>>)])}
C13_Rows(v) == IsList(v) /\ \A i \in 1..Len(v.list) : IsDict(v.list[i])
C13_Names(v) == IsList(v) /\ \A i \in 1..Len(v.list) : IsStr(v.list[i])
C13_Bench(v) == IsDict(v) /\ C13_Entry(v, "table", C13_Rows) /\ C13_Entry(v, "peers", C13_Names)
C13_Recs(v) ==
    /\ IsList(v)
    /\ \A i \in 1..Len(v.list) :
          /\ IsDict(v.list[i])
          /\ \A k \in {"impact", "effort"} \cap DOMAIN v.list[i].dict : IsNum(v.list[i].dict[k])
C13_Results(v) ==
    /\ IsDict(v)
    /\ C13_Entry(v, "ind", C13_Ind)
    /\ C13_Entry(v, "SWOT", C13_StrLists)
    /\ C13_Entry(v, "Ansoff", C13_StrLists)
    /\ C13_Entry(v, "Benchmark", C13_Bench)

\* every optional entry of the state is absent, None, empty, or filled
C13_OptionalEntries(state) ==
    /\ C13_Entry(state, "company", IsStr)
    /\ C13_Entry(state, "product", IsStr)
    /\ C13_Entry(state, "frameworks", IsList)
    /\ C13_Entry(state, "results", C13_Results)
    /\ C13_Entry(state, "recs", C13_Recs)

(* C13: on every state in which each of the optional entries (company,      *)
(* product, frameworks, results, its sections ind, SWOT, Ansoff and         *)
(* Benchmark, and recs) is absent, None, empty or filled,                   *)
(* build_ppt_from_state raises nothing and returns a deck and a file name.  *)
C13_MissingSectionsNeverRaise ==
    (dcall.fn = "build_ppt_from_state" /\ C13_OptionalEntries(dcall.state)) =>
        /\ IsOk(dcall.res.result)
        /\ dcall.res.section = "none"
        /\ Len(dcall.res.result.ok.slides) >= 4
        /\ Len(dcall.res.result.ok.fname) > 0

\* a deck has been built from a state whose sections and recs are all None
C13_Witness ==
    /\ dcall.fn = "build_ppt_from_state"
    /\ IsOk(dcall.res.result)
    /\ IsDict(Get(dcall.state, "results", JNull))
    /\ \A k \in {"ind", "SWOT", "Ansoff", "Benchmark"} :
          k \in DOMAIN dcall.state.dict["results"].dict
          /\ dcall.state.dict["results"].dict[k] = JNull
    /\ Get(dcall.state, "recs", EmptyDict) = JNull

\* the mapping holds at least one item in one of its lists
C14_SomeItem(v) ==
    IsDict(v) /\ \E k \in DOMAIN v.dict : IsList(v.dict[k]) /\ Len(v.dict[k].list) > 0

\* the built deck has a slide with the heading
C14_HasSlide(heading) ==
    \E i \in 1..Len(dcall.res.result.ok.slides) :
        dcall.res.result.ok.slides[i].heading = <<heading>>

(* C14: a built deck has the slide of a section (Industry, SWOT, Ansoff,    *)
(* Benchmark, Recommendations) only if the data of the section holds at     *)
(* least one item; a SWOT or an Ansoff mapping whose four lists are empty   *)
(* gives no slide.                                                          *)
C14_SlideOnlyWithItems ==
    (dcall.fn = "build_ppt_from_state" /\ IsOk(dcall.res.result)) =>
        LET results == Or(Get(dcall.state, "results", JNull), EmptyDict)
            section(k) == Get(results, k, JNull)
        IN  /\ C14_HasSlide("INDUSTRY ANALYSIS") => C14_SomeItem(section("ind"))
            /\ C14_HasSlide("SWOT") => C14_SomeItem(section("SWOT"))
            /\ C14_HasSlide("Ansoff Matrix") => C14_SomeItem(section("Ansoff"))
            /\ C14_HasSlide("Competitor Benchmark") => C14_SomeItem(section("Benchmark"))
            /\ C14_HasSlide("Top 5 Recommendations - Impact x Effort")
                  => Truthy(Get(dcall.state, "recs", JNull))

\* the candidate bullets of the Executive Snapshot in the order of the checks,
\* each named by the text it begins with
C15_Labels ==
    <<"Industry Analysis", "Strengths: ", "Weaknesses: ", "Opportunities: ", "Threats: ",
      "Focus: Execute 1-2 high-impact Ansoff plays next quarter.", "Top priority: ">>

\* the data of the candidate is present in the state
C15_Present(state, label) ==
    LET results == Or(Get(state, "results", JNull), EmptyDict)
        swot == Or(Get(results, "SWOT", JNull), EmptyDict)
    IN  CASE label = C15_Labels[1] -> Truthy(Get(results, "ind", JNull))
          [] label = C15_Labels[2] -> Truthy(Get(swot, "S", JNull))
          [] label = C15_Labels[3] -> Truthy(Get(swot, "W", JNull))
          [] label = C15_Labels[4] -> Truthy(Get(swot, "O", JNull))
          [] label = C15_Labels[5] -> Truthy(Get(swot, "T", JNull))
          [] label = C15_Labels[6] -> Truthy(Get(results, "Ansoff", JNull))
          [] label = C15_Labels[7] -> Truthy(Get(state, "recs", JNull))

\* the candidates whose data is present, in the order of the checks
C15_Candidates(state) == SeqFilter(C15_Labels, LAMBDA label : C15_Present(state, label))

(* C15: the bullets of the Executive Snapshot slide are the first           *)
(* min(6, n) of the n candidate bullets whose data is present, in the order *)
(* Industry Analysis, Strengths, Weaknesses, Opportunities, Threats, Ansoff *)
(* focus, Top priority; the slide never has more than 6 bullets.            *)
C15_SnapshotBullets ==
    (dcall.fn = "build_ppt_from_state" /\ IsOk(dcall.res.result)) =>
        LET slide == dcall.res.result.ok.slides[3]
            n == Len(C15_Candidates(dcall.state))
        IN  /\ slide.heading = <<"Executive Snapshot">>
            /\ Len(slide.bullets) = Min(6, n)
            /\ Len(slide.bullets) <= 6
            /\ \A i \in 1..Len(slide.bullets) :
                  slide.bullets[i][1] = C15_Candidates(dcall.state)[i]

\* a deck built from a state with all seven candidates: six bullets, the
\* Ansoff focus the last of them
C15_Witness ==
    /\ dcall.fn = "build_ppt_from_state"
    /\ IsOk(dcall.res.result)
    /\ Len(C15_Candidates(dcall.state)) = 7
    /\ Len(dcall.res.result.ok.slides[3].bullets) = 6
    /\ dcall.res.result.ok.slides[3].bullets[6][1] = C15_Labels[6]

\* the trimmed value of an entry, the default when it is missing or empty
C16_Part(state, k, default) ==
    LET v == Get(state, k, JNull) IN
    IF v = JNull \/ v = JS(<<>>) THEN <<default>>
    ELSE SeqMap(Strip(v.str), LAMBDA c : IF c = " " THEN "_" ELSE c)

(* C16: the file name build_ppt_from_state returns is                       *)
(* <company>_<product>_<YYYYMMDD>_strategy.pptx, company and product being  *)
(* the trimmed values with "_" for every space, "Company" and "Product"     *)
(* when the value is missing or empty; the name holds no space and its      *)
(* company and product parts are not empty.                                 *)
C16_FileName ==
    (dcall.fn = "build_ppt_from_state" /\ IsOk(dcall.res.result)) =>
        LET company == C16_Part(dcall.state, "company", "Company")
            product == C16_Part(dcall.state, "product", "Product")
            stamp == ToString(dcall.now.y * 10000 + dcall.now.m * 100 + dcall.now.d)
            fname == dcall.res.result.ok.fname
        IN  /\ fname = company \o <<"_">> \o product \o <<"_", stamp, "_strategy.pptx">>
            /\ \A i \in 1..Len(fname) : fname[i] # " "
            /\ company # <<>>
            /\ product # <<>>

\* a session state whose company or product is empty or whitespace only
C17_Blank(st) == Strip(st.company) = <<>> \/ Strip(st.product) = <<>>

(* C17: a Generate request made while company or product is blank shows   *)
(* the validation error and attempts no generation: no provider call       *)
(* completes, and the step and the session state (its results included)    *)
(* are what they were before the request.                                  *)
C17_BlankGenerateRefused ==
    [][(wcall'.fn = "on_generate" /\ C17_Blank(wstate)) =>
          /\ shown' = <<MsgRequired>>
          /\ wcall'.completes = 0
          /\ wcall'.resp = NoResp
          /\ step' = step
          /\ wstate' = wstate]_vars

\* Generate was requested with a whitespace-only company while a key, the
\* modules and the SDK were all there, and again with a blank product
C17_Witness ==
    /\ wcall.fn = "on_generate"
    /\ wcall.before.company = <<" ", "\t">>
    /\ wcall.before.product # <<>>
    /\ _get_generator(env).gen # "none"
    /\ shown = <<MsgRequired>>

\* the field k of a SWOT record, when it is a number, lies within 1..10
C18_Within(rec, k) ==
    (k \in DOMAIN rec.dict /\ IsNum(rec.dict[k])) => rec.dict[k].num \in 1..10

(* C18: every record of the S, W, O and T lists that swot_prompts'         *)
(* generate_swot returns has impact and control within 1..10, whatever     *)
(* numbers the provider's output holds.                                    *)
C18_ImpactControlInRange ==
    (call.fn = "swot_prompts.generate_swot" /\ IsOk(call.res.out)) =>
        \A k \in {"S", "W", "O", "T"} :
            LET items == call.res.out.ok.dict[k].list IN
            \A i \in 1..Len(items) :
                C18_Within(items[i], "impact") /\ C18_Within(items[i], "control")

(* C19: in every wizard state each of the S, W, O and T lists of the       *)
(* session's SWOT result holds at most 8 items.                            *)
C19_ListsBounded ==
    \A k \in {"S", "W", "O", "T"} : Len(wstate.swot.dict[k].list) <= MaxItemsDefault

\* a recommendation record with a non-empty title and impact and effort in 1..5
C20_Record(rec) ==
    /\ IsDict(rec)
    /\ IsStr(rec.dict.title) /\ rec.dict.title.str # <<>>
    /\ IsNum(rec.dict.impact) /\ rec.dict.impact.num \in 1..5
    /\ IsNum(rec.dict.effort) /\ rec.dict.effort.num \in 1..5

\* generate_recommendations has returned a list
C20_Returned == call.fn = "generate_recommendations" /\ IsOk(call.res.out)

(* C20 as stated: every record that generate_recommendations returns has   *)
(* a non-empty title and impact and effort within 1..5, and the returned   *)
(* list has at most top_k items and is never empty.                        *)
C20_RecsNeverEmpty ==
    C20_Returned =>
        LET recs == call.res.out.ok.list IN
        /\ \A i \in 1..Len(recs) : C20_Record(recs[i])
        /\ Len(recs) <= call.top_k
        /\ recs # <<>>

(* C20, amended: every record that generate_recommendations returns has a  *)
(* non-empty title and impact and effort within 1..5, the returned list    *)
(* has at most top_k items, and it is empty exactly when top_k is 0.       *)
C20_RecsWellFormed ==
    C20_Returned =>
        LET recs == call.res.out.ok.list IN
        /\ \A i \in 1..Len(recs) : C20_Record(recs[i])
        /\ Len(recs) <= call.top_k
        /\ recs = <<>> <=> call.top_k = 0

\* the provider answered an impact of "7" and an effort of 0 under the title
\* "AI platform", and the returned record holds 5 and 1
C20_Witness ==
    /\ C20_Returned
    /\ provider = "set"
    /\ call.top_k >= 1
    /\ \E i \in 1..Len(call.res.out.ok.list) :
         LET rec == call.res.out.ok.list[i].dict IN
         rec.title = Wd("AI platform") /\ rec.impact = JN(5) /\ rec.effort = JN(1)

\* the calls that generate one framework
C21_Generators ==
    {"generate_Industry_Analysis", "generate_swot", "generate_ansoff", "generate_benchmark",
     "generate_recommendations", "generate_scope", "swot_prompts.generate_swot"}

(* C21: each framework generation call invokes the provider's complete     *)
(* operation at most once (once with a provider, never without one),       *)
(* whether the provider raised, answered a text that cannot be parsed, or  *)
(* answered fields that are all empty.                                     *)
C21_SingleAttempt ==
    call.fn \in C21_Generators =>
        call.res.completes = (IF provider = "set" THEN 1 ELSE 0)

\* generate_recommendations got an answer without a usable record and fell
\* back to the heuristic list after its one complete() call
C21_Witness ==
    /\ call.fn = "generate_recommendations"
    /\ provider = "set"
    /\ IsOk(Complete(call.resp))
    /\ call.resp.text = <<Prose>>
    /\ IsOk(call.res.out)
    /\ call.res.out = HeuristicRecs(call.results, call.top_k)
    /\ call.res.completes = 1

\* the place of a slide in the fixed order of the deck, 0 for an unknown slide
C22_Rank(sl) ==
    CASE "subtitle" \in DOMAIN sl -> 1
      [] sl.heading = <<"Agenda">> -> 2
      [] sl.heading = <<"Executive Snapshot">> -> 3
      [] sl.heading = <<"INDUSTRY ANALYSIS">> -> 4
      [] sl.heading = <<"SWOT">> -> 5
      [] sl.heading = <<"Ansoff Matrix">> -> 6
      [] sl.heading = <<"Competitor Benchmark">> -> 7
      [] sl.heading = <<"Top 5 Recommendations - Impact x Effort">> -> 8
      [] sl.heading \in {AppendixTitle, AppendixTitle \o <<" (cont.)">>} -> 9
      [] OTHER -> 0

(* C22: the slides of every deck build_ppt_from_state returns are in the   *)
(* order Title, Agenda, Executive Snapshot, Industry Analysis, SWOT,       *)
(* Ansoff Matrix, Competitor Benchmark, Recommendations, Appendix: each    *)
(* section at most once, the appendix slides last; the first three slides  *)
(* are Title, Agenda and Executive Snapshot and the last is an appendix    *)
(* slide.                                                                  *)
C22_FixedOrder ==
    (dcall.fn = "build_ppt_from_state" /\ IsOk(dcall.res.result)) =>
        LET slides == dcall.res.result.ok.slides
            rank(i) == C22_Rank(slides[i])
        IN  /\ Len(slides) >= 4
            /\ rank(1) = 1 /\ rank(2) = 2 /\ rank(3) = 3
            /\ rank(Len(slides)) = 9
            /\ \A i \in 1..Len(slides) : rank(i) \in 1..9
            /\ \A i, j \in 1..Len(slides) :
                  i < j => (rank(i) < rank(j) \/ (rank(i) = 9 /\ rank(j) = 9))

\* a deck with every section and two appendix slides, and one with no
\* optional section at all, are both built in the runs of the model
C22_Witness ==
    /\ dcall.fn = "build_ppt_from_state"
    /\ IsOk(dcall.res.result)
    /\ LET slides == dcall.res.result.ok.slides IN
       /\ {C22_Rank(slides[i]) : i \in 1..Len(slides)} = 1..9
       /\ Len(slides) >= 10

\* the changes of the step counter the wizard allows
C23_Moves ==
    {<<0, 1>>, <<1, 0>>, <<1, 2>>, <<1, 3>>, <<2, 1>>, <<2, 3>>, <<3, 0>>, <<3, 1>>, <<3, 2>>}

(* C23: the step counter is always one of 0..3, and it changes only from   *)
(* 0 to 1 (by a Generate request whose generation returned a SWOT), from 1 *)
(* to 0, 2 or 3, from 2 to 1 or 3, and from 3 to an earlier step, to 0     *)
(* only by the reset.                                                      *)
C23_StepMoves ==
    /\ [](step \in 0..3)
    /\ [][step' # step =>
            /\ <<step, step'>> \in C23_Moves
            /\ (step = 0) =>
                  /\ wcall'.fn = "on_generate"
                  /\ shown' = <<MsgGenerated>>
                  /\ ~C17_Blank(wstate)
                  /\ _get_generator(env).gen # "none"
            /\ (step = 3 /\ step' = 0) =>
                  /\ uuids' = uuids + 1
                  /\ wstate' = InitialState(uuids')]_vars

\* the wizard is back at step 0 after a reset, which takes a run through
\* the steps 0, 1, (2,) 3 and 0
C23_Witness ==
    /\ step = 0
    /\ uuids = 2
    /\ wstate = InitialState(2)

(* C24: on the Export step (step 3), "Back to Edit", the one operation     *)
(* that leaves the step without resetting the session, takes the wizard    *)
(* to the Edit step (step 2).                                              *)
C24_BackToEditOpensEdit ==
    [][(step = 3 /\ step' # step /\ uuids' = uuids) => step' = 2]_vars

(* C25: "Start New Analysis" (the one operation that draws a new uuid)     *)
(* leaves the step at 0, the six inputs empty, a SWOT result of four empty *)
(* lists and no other key, and an analysis identifier that differs from    *)
(* the one before; no other operation changes the analysis identifier.     *)
C25_ResetToInitial ==
    [][/\ uuids' # uuids =>
            /\ step' = 0
            /\ \A k \in {"company", "product", "industry", "scope", "geo", "notes"} :
                  wstate'[k] = <<>>
            /\ DOMAIN wstate'.swot.dict = {"S", "W", "O", "T"}
            /\ \A k \in {"S", "W", "O", "T"} : wstate'.swot.dict[k] = JL(<<>>)
            /\ wstate'.analysis_id # wstate.analysis_id
            /\ wstate' = InitialState(wstate'.analysis_id)
       /\ uuids' = uuids => wstate'.analysis_id = wstate.analysis_id]_vars

\* the session after a reset: the second identifier, nothing typed, nothing
\* generated
C25_Witness ==
    /\ uuids = 2
    /\ wstate.analysis_id = 2
    /\ wstate.swot = EmptySwot
    /\ wstate.company = <<>> /\ wstate.product = <<>>
    /\ step = 0
    /\ wcall = NoWCall

(* C26: in every wizard state past the input step (step 1, 2 or 3) the     *)
(* session's company and product are both non-blank.                       *)
C26_NamesPastInputs ==
    step >= 1 => (Strip(wstate.company) # <<>> /\ Strip(wstate.product) # <<>>)

\* the Export step has been reached with a company typed with a leading
\* space and a product of several words
C26_Witness ==
    /\ step = 3
    /\ wstate.company = <<" ", "Emerson">>
    /\ Len(wstate.product) > 1
    /\ Strip(wstate.product) # <<>>

\* a record as Save writes it: a text, impact 5 and control 5, nothing else
C27_Plain(rec) ==
    /\ IsDict(rec)
    /\ DOMAIN rec.dict = {"text", "impact", "control"}
    /\ IsStr(rec.dict.text)
    /\ rec.dict.impact = JN(5) /\ rec.dict.control = JN(5)

(* C27: Save & Continue on the Edit step (the move from step 2 to step 3)  *)
(* leaves in each of the S, W, O and T lists only records of a text,       *)
(* impact 5 and control 5, without priority or solution, also for the      *)
(* items whose text was left as it was, and leaves the other keys of the   *)
(* SWOT result as they were.                                               *)
C27_SaveFlattensItems ==
    [][(step = 2 /\ step' = 3) =>
          /\ DOMAIN wstate'.swot.dict = DOMAIN wstate.swot.dict
          /\ \A k \in DOMAIN wstate.swot.dict :
                IF k \in {"S", "W", "O", "T"}
                THEN LET items == wstate'.swot.dict[k].list IN
                     \A i \in 1..Len(items) : C27_Plain(items[i])
                ELSE wstate'.swot.dict[k] = wstate.swot.dict[k]]_vars

\* the item "OEM partners", which only the provider gives and with impact 9,
\* control 2 and priority medium, is in the saved S list with impact 5 and
\* without a priority, next to the introduction of the generated result
C27_Witness ==
    /\ step = 3
    /\ "introduction" \in DOMAIN wstate.swot.dict
    /\ \E i \in 1..Len(wstate.swot.dict["S"].list) :
         LET rec == wstate.swot.dict["S"].list[i] IN
         /\ rec.dict.text = Wd("OEM partners")
         /\ C27_Plain(rec)

\* the quadrant rectangles (l, t, w, h) of the recommendations slide, doubled
C28_Quads == _grid(MARGIN, Inches(2000), W - 2 * MARGIN, Inches(4600))

\* the box lies inside the rectangle of the quadrant it was assigned to
C28_Inside(box) ==
    LET quad == C28_Quads[box.quad] IN
    /\ 2 * box.left >= quad[1]
    /\ 2 * (box.left + box.width) <= quad[1] + quad[3]
    /\ 2 * box.top >= quad[2]
    /\ 2 * (box.top + box.height) <= quad[2] + quad[4]

\* two boxes share a point of the slide
C28_Overlap(a, b) ==
    /\ a.left < b.left + b.width /\ b.left < a.left + a.width
    /\ a.top < b.top + b.height /\ b.top < a.top + a.height

(* C28: every text box slide_recommendations places, for a list of up to   *)
(* 10 recommendations, lies entirely inside the rectangle of its quadrant, *)
(* and no box overlaps a box of another quadrant.                          *)
C28_BoxesInsideQuadrant ==
    (dcall.fn = "slide_recommendations" /\ IsOk(dcall.res) /\ Len(dcall.recs) <= 10) =>
        LET boxes == RecBoxes(dcall.res.ok) IN
        /\ \A b \in 1..Len(boxes) : C28_Inside(boxes[b])
        /\ \A a, b \in 1..Len(boxes) :
              boxes[a].quad # boxes[b].quad => ~C28_Overlap(boxes[a], boxes[b])

(* C29: every record of a list the heuristic path of                      *)
(* generate_recommendations returns has impact 4 or 5 and effort 2 or 3,   *)
(* and slide_recommendations places every box of such a list in the Quick  *)
(* Wins quadrant and none in the other three.                              *)
C29_HeuristicAllQuickWins ==
    (dcall.fn = "slide_recommendations" /\ dcall.recs \in HeuristicLists) =>
        /\ \A i \in 1..Len(dcall.recs) :
              /\ dcall.recs[i].dict.impact.num \in {4, 5}
              /\ dcall.recs[i].dict.effort.num \in {2, 3}
        /\ IsOk(dcall.res)
        /\ LET boxes == RecBoxes(dcall.res.ok) IN
           /\ Len(boxes) = Len(dcall.recs)
           /\ \A b \in 1..Len(boxes) :
                 /\ QuadrantNames[boxes[b].quad] = "Quick Wins"
                 /\ InQuadrant(boxes[b], "Quick Wins")

\* the five default seeds have been placed, the "Managed calibration add-on"
\* with its effort of 3 among them
C29_Witness ==
    /\ dcall.fn = "slide_recommendations"
    /\ dcall.recs = generate_recommendations("none", NoResp, EmptyDict, TopKDefault).out.ok.list
    /\ Len(RecBoxes(dcall.res.ok)) = 5
    /\ \E i \in 1..5 : dcall.recs[i].dict.effort = JN(3) /\ dcall.recs[i].dict.impact = JN(4)

(* C30: generate_scope on a generator with no provider returns the         *)
(* empty-string fallback scope and raises nothing.                         *)
C30_ScopeWithoutProvider ==
    (call.fn = "generate_scope" /\ provider = "none") =>
        /\ IsOk(call.res.out)
        /\ call.res.out.ok = _fallback_scope

====
